---- MODULE Spec2Model ----
(***************************************************************************)
(* The connection / multiplexing engine of the SquirrelDB C client          *)
(* (src/src/squirreldb.c): caller threads running send_request on one       *)
(* client, the reader thread, sqrl_subscribe / sqrl_unsubscribe,            *)
(* sqrl_disconnect, and a server at the other end of the socket.            *)
(*                                                                          *)
(* A correlation id is the decimal rendering ("%llu") of the 64-bit         *)
(* request counter; the rendering is injective, so an id is written here as *)
(* the number it prints.  A frame payload is written as the values the      *)
(* reader extracts from it with json_get_string / json_get_object: "id",    *)
(* "type" and the "change" object.  Id 0 stands for "no id field".           *)
(* A frame also carries the length its header declares.                     *)
(***************************************************************************)
EXTENDS Integers, Sequences, FiniteSets, TLC

(* ------------------------------ bounds --------------------------------- *)
\* operations the caller threads start on the connection, in total
MaxCalls == 2
\* frames the server puts on the wire
MaxFrames == 2
\* sqrl_disconnect calls the application makes
MaxDisconnects == 2

\* Two caller threads share the client.  c1 issues document requests (ping,
\* query, insert, update, delete, list-collections: one code path through
\* send_request), c2 subscribes and unsubscribes.
Callers == {"c1", "c2"}
\* what the application's threads do: the operations each thread calls, how
\* many calls they make in all, and how many frames the server sends back
MixedWorkload ==
  [ops |-> [c1 |-> {"request"}, c2 |-> {"subscribe"}],
   calls |-> MaxCalls, frames |-> MaxFrames, changes |-> {"insert"}]
\* two threads that each subscribe; one may unsubscribe
SubscribersWorkload ==
  [ops |-> [c1 |-> {"subscribe"}, c2 |-> {"subscribe"}],
   calls |-> MaxCalls + 1, frames |-> MaxFrames + 1, changes |-> {"insert"}]
\* one thread that sends requests and one that subscribes and unsubscribes,
\* with a server that pushes nothing
WireWorkload ==
  [ops |-> [c1 |-> {"request"}, c2 |-> {"subscribe"}],
   calls |-> MaxCalls + 1, frames |-> MaxFrames, changes |-> {}]
\* one thread that subscribes and unsubscribes while the server pushes
\* changes of every kind
ChangesWorkload ==
  [ops |-> [c1 |-> {}, c2 |-> {"subscribe"}],
   calls |-> MaxCalls, frames |-> MaxFrames,
   changes |-> {"initial", "insert", "update", "delete"}]

(* ------------------------- program constants --------------------------- *)
SQRL_OK == 0
SQRL_ERR_CONNECT == 1
SQRL_ERR_HANDSHAKE == 2
SQRL_ERR_VERSION_MISMATCH == 3
SQRL_ERR_AUTH_FAILED == 4
SQRL_ERR_SEND == 5
SQRL_ERR_RECV == 6
SQRL_ERR_TIMEOUT == 7
SQRL_ERR_CLOSED == 8
SQRL_ERR_INVALID_ARG == 9
SQRL_ERR_DECODE == 12
SQRL_ERR_SERVER == 13
SQRL_MAX_MESSAGE_SIZE == 16777216
HANDSHAKE_SUCCESS == 0
MSG_TYPE_REQUEST == 1
HANDSHAKE_VERSION_MISMATCH == 1
HANDSHAKE_AUTH_FAILED == 2
SQRL_ENCODING_MSGPACK == 1
SQRL_ENCODING_JSON == 2
SQRL_CHANGE_INITIAL == 0
SQRL_CHANGE_INSERT == 1
SQRL_CHANGE_UPDATE == 2
SQRL_CHANGE_DELETE == 3

Free == "free"
Reader == "reader"

NoOrigin == [c |-> "none", n |-> 0]
\* a frame without a "change" object (json_get_object returns NULL)
NoChange == [present |-> FALSE, type |-> "NULL", document |-> "NULL",
             new |-> "NULL", old |-> "NULL"]
\* the "change" objects of a notification: the discriminator and the
\* payloads of its variant (the snapshot document, the new document, the
\* previous value, which update and delete may leave out)
Changes ==
  {[present |-> TRUE, type |-> "initial", document |-> "doc",
    new |-> "NULL", old |-> "NULL"],
   [present |-> TRUE, type |-> "insert", document |-> "NULL",
    new |-> "doc", old |-> "NULL"]}
  \cup {[present |-> TRUE, type |-> "update", document |-> "NULL",
          new |-> "doc", old |-> o] : o \in {"NULL", "old"}}
  \cup {[present |-> TRUE, type |-> "delete", document |-> "NULL",
          new |-> "NULL", old |-> o] : o \in {"NULL", "old"}}
\* a NULL response pointer
NoFrame == [length |-> 0, id |-> 0, type |-> "null", change |-> NoChange,
            origin |-> NoOrigin, seq |-> 0]
\* a pending_request_t that is not allocated
NoReq == [id |-> 0, response |-> NoFrame, completed |-> FALSE,
          mutex |-> Free, live |-> FALSE]

VARIABLES
  \* struct sqrl_client
  connected, reader_running, request_id, fd,
  write_mutex, pending_mutex, subs_mutex,
  pending_requests, subscriptions, clientFreed,
  \* the pending_request_t each caller allocated (its req pointer)
  req,
  \* caller threads: position, operation, locals
  pc, op, calls, tmp, rid, err, response_out, handle,
  \* reader thread
  rpc, msg, rmatch,
  \* the socket and the server
  wire, inbox, emitted, peerClosed, acked, nseq,
  \* the application thread calling sqrl_disconnect
  dpc, dcalls,
  \* history
  issued, orphan, delivered, lost, unsubbed, ub,
  \* history of subscriptions: the sqrl_subscribe call that created each
  \* caller's handle, and the subscriptions whose sqrl_unsubscribe returned
  subcall, gone,
  \* what the application does with the client
  workload,
  \* sqrl_connect: position, arguments, the client being built, the
  \* handshake response, do_handshake's result, the return value,
  \* *client_out, the client's session id and encoding, and (history) the
  \* step that failed
  cpc, cargs, cclient, hresp, herr, cerr, client_out,
  session_id, encoding, cfail,
  \* the client's request_timeout_ms, the handshake packet do_handshake
  \* built, and the timeout it gave recv_all (-1: recv_all not yet called)
  request_timeout_ms, hpacket, htimeout,
  \* the last call of sqrl_session_id and sqrl_is_connected by the
  \* application: its argument and what the two returned
  sidret,
  \* the bytes the socket has accepted from send_all, in order, each with
  \* the send_frame call it came from and its offset in that call's frame
  out,
  \* the socket's incoming byte stream: the payloads of the frames the peer
  \* wrote into it (history), the number of bytes recv_all has taken from
  \* it, and the payloads recv_frame has returned
  encoded, spos, decoded,
  \* recv_frame: position, the four length bytes of the header, the decoded
  \* length, the payload bytes read, the return value
  fpc, fheader, flength, fgot, ferr

clientVars == <<connected, reader_running, request_id, fd, write_mutex,
                pending_mutex, subs_mutex, pending_requests, subscriptions,
                clientFreed>>
callerVars == <<pc, op, calls, tmp, rid, err, response_out, handle>>
readerVars == <<rpc, msg, rmatch>>
netVars == <<wire, inbox, emitted, peerClosed, acked, nseq>>
appVars == <<dpc, dcalls>>
histVars == <<issued, orphan, delivered, lost, unsubbed, ub>>
subVars == <<subcall, gone>>
connVars == <<cpc, cargs, cclient, hresp, herr, cerr, client_out,
              session_id, encoding, cfail, request_timeout_ms, hpacket,
              htimeout>>
frameVars == <<fpc, fheader, flength, fgot, ferr>>
streamVars == <<encoded, spos, decoded>>
outerVars == <<workload, connVars, frameVars, sidret, out, streamVars>>
vars == <<clientVars, req, callerVars, readerVars, netVars, appVars, histVars,
          subVars, outerVars>>

\* the operations thread c calls
OpsOf(c) == workload.ops[c]

(* ------------------------------ helpers -------------------------------- *)
\* a cleanup that unlinks the head of the list, whichever node it is
UnlinkHead(list, c) == IF list = <<>> THEN list ELSE Tail(list)

\* list removal as in send_request's cleanup: unlink the node `c`
Unlink(list, c) == SelectSeq(list, LAMBDA x : x # c)

\* dispatch_response completing the head of the list without comparing ids
FindPendingAnyId(list, id) ==
  IF list = <<>> THEN "none" ELSE list[1]

\* the first pending entry whose id equals `id`, or "none"
FindPending(list, id) ==
  LET idx == {i \in 1..Len(list) : req[list[i]].id = id}
  IN IF idx = {} THEN "none"
     ELSE list[CHOOSE i \in idx : \A j \in idx : i <= j]

\* does the registry hold an entry with this id
FindSub(list, id) == \E i \in 1..Len(list) : list[i].id = id

\* the first registry entry with this id (the one dispatch_change stops at)
FirstSub(list, id) ==
  list[CHOOSE i \in 1..Len(list) :
         list[i].id = id /\ \A j \in 1..(i - 1) : list[j].id # id]

\* remove the first registry entry with this id
RemoveSub(list, id) ==
  LET idx == {i \in 1..Len(list) : list[i].id = id}
  IN IF idx = {} THEN list
     ELSE LET k == CHOOSE i \in idx : \A j \in idx : i <= j
          IN SubSeq(list, 1, k - 1) \o SubSeq(list, k + 1, Len(list))

(* ------------------ sqrl_connect: pure parts and inputs ---------------- *)
\* the digits "%x" prints
HexDigits == <<"0", "1", "2", "3", "4", "5", "6", "7",
               "8", "9", "a", "b", "c", "d", "e", "f">>
\* the digits "%X" prints
UpperHexDigits == <<"0", "1", "2", "3", "4", "5", "6", "7",
                    "8", "9", "A", "B", "C", "D", "E", "F">>

\* "%02x" of the bytes from..to, concatenated
RECURSIVE BytesHex(_, _, _, _)
BytesHex(digits, bytes, from, to) ==
  IF from > to THEN <<>>
  ELSE <<digits[(bytes[from] \div 16) + 1], digits[(bytes[from] % 16) + 1]>>
         \o BytesHex(digits, bytes, from + 1, to)

\* the format string of uuid_to_string: 4, 2, 2, 2 and 6 bytes, hyphens
\* in between
FormatUuid(digits, bytes) ==
  BytesHex(digits, bytes, 1, 4) \o <<"-">> \o
  BytesHex(digits, bytes, 5, 6) \o <<"-">> \o
  BytesHex(digits, bytes, 7, 8) \o <<"-">> \o
  BytesHex(digits, bytes, 9, 10) \o <<"-">> \o
  BytesHex(digits, bytes, 11, 16)

\* a uuid_to_string that prints with "%02X"
uuid_to_string_upper(bytes) == FormatUuid(UpperHexDigits, bytes)

uuid_to_string(bytes) == FormatUuid(HexDigits, bytes)

\* a do_handshake that takes every status it does not know for success
HandshakeResultLax(status) ==
  IF status = HANDSHAKE_VERSION_MISMATCH THEN SQRL_ERR_VERSION_MISMATCH
  ELSE IF status = HANDSHAKE_AUTH_FAILED THEN SQRL_ERR_AUTH_FAILED
  ELSE SQRL_OK

\* do_handshake: the status byte of the response to its return value
HandshakeResult(status) ==
  IF status = HANDSHAKE_VERSION_MISMATCH THEN SQRL_ERR_VERSION_MISMATCH
  ELSE IF status = HANDSHAKE_AUTH_FAILED THEN SQRL_ERR_AUTH_FAILED
  ELSE IF status # HANDSHAKE_SUCCESS THEN SQRL_ERR_HANDSHAKE
  ELSE SQRL_OK

\* do_handshake: `(resp_flags & 0x01) ? SQRL_ENCODING_MSGPACK : SQRL_ENCODING_JSON`
NegotiatedEncoding(flags) ==
  IF flags % 2 = 1 THEN SQRL_ENCODING_MSGPACK ELSE SQRL_ENCODING_JSON

\* session ids a server may send: 16 bytes resp[3..18]
SessionBytes ==
  {[i \in 1..16 |-> (b + (i - 1) * st) % 256] :
     b \in {0, 9, 171, 255}, st \in {0, 1, 17}}

\* the 19-byte handshake responses: status resp[0], flags resp[2], session
\* id resp[3..18] (resp[1], the version, is not read).  Every status byte
\* occurs; the bytes behind a failing status, which do_handshake does not
\* read, are zero.
Responses ==
  {r \in [status : 0..255, flags : 0..3, sid : SessionBytes] :
     r.status # HANDSHAKE_SUCCESS
       => r.flags = 0 /\ r.sid = [i \in 1..16 |-> 0]}

NoResp == [status |-> 0, flags |-> 0, sid |-> <<>>]

\* `static const uint8_t MAGIC[4] = {'S', 'Q', 'R', 'L'};`
MAGIC == <<83, 81, 82, 76>>
SQRL_PROTOCOL_VERSION == 1

\* a char pointer: NULL, or the string it points to
NullStr == [null |-> TRUE, str |-> <<>>]
Str(bytes) == [null |-> FALSE, str |-> bytes]

\* options == NULL (no field can be read)
NullOptions ==
  [null |-> TRUE, auth_token |-> NullStr, use_msgpack |-> FALSE,
   connect_timeout_ms |-> 0, request_timeout_ms |-> 0]

\* a sqrl_options_default that turns MessagePack off
sqrl_options_default_json ==
  [null |-> FALSE, auth_token |-> NullStr, use_msgpack |-> FALSE,
   connect_timeout_ms |-> 5000, request_timeout_ms |-> 30000]

sqrl_options_default ==
  [null |-> FALSE, auth_token |-> NullStr, use_msgpack |-> TRUE,
   connect_timeout_ms |-> 5000, request_timeout_ms |-> 30000]

\* the options arguments of sqrl_connect: NULL, the defaults, and two
\* option sets of the application's own
OptionArgs ==
  {NullOptions, sqrl_options_default,
   [null |-> FALSE, auth_token |-> Str(<<116, 107>>), use_msgpack |-> FALSE,
    connect_timeout_ms |-> 100, request_timeout_ms |-> 1000],
   [null |-> FALSE, auth_token |-> Str(<<>>), use_msgpack |-> TRUE,
    connect_timeout_ms |-> 0, request_timeout_ms |-> 30000]}

write_u16_be(v) == <<(v \div 256) % 256, v % 256>>

\* do_handshake: the packet it builds from the options
HandshakePacket(opts) ==
  LET token == IF ~opts.null /\ ~opts.auth_token.null
                 THEN opts.auth_token.str ELSE <<>>
      flags == (IF opts.null \/ opts.use_msgpack THEN 1 ELSE 0) + 2
  IN MAGIC \o <<SQRL_PROTOCOL_VERSION, flags>>
       \o write_u16_be(Len(token) % 65536) \o token

\* do_handshake: `opts ? opts->connect_timeout_ms : 5000`
HandshakeTimeout(opts) ==
  IF opts.null THEN 5000 ELSE opts.connect_timeout_ms

\* sqrl_connect: `options ? options->request_timeout_ms : 30000`
RequestTimeout(opts) ==
  IF opts.null THEN 30000 ELSE opts.request_timeout_ms

\* sqrl_session_id / sqrl_is_connected not called yet
NoAnswer == [called |-> FALSE, null_client |-> FALSE, session |-> <<>>,
             is_connected |-> FALSE]

\* sqrl_connect has returned SQRL_OK after the handshake response r
ConnectReturned(r) ==
  /\ cpc = "done"
  /\ cargs = [client_out |-> TRUE, host |-> TRUE, options |-> NullOptions]
  /\ cclient = "allocated"
  /\ request_timeout_ms = RequestTimeout(NullOptions)
  /\ hpacket = HandshakePacket(NullOptions)
  /\ htimeout = HandshakeTimeout(NullOptions)
  /\ hresp = r
  /\ herr = SQRL_OK
  /\ cerr = SQRL_OK
  /\ client_out = "client"
  /\ session_id = uuid_to_string(r.sid)
  /\ encoding = NegotiatedEncoding(r.flags)
  /\ cfail = "none"

\* the client's fields and reader thread once sqrl_connect has returned it
ClientReturned ==
  /\ connected = TRUE
  /\ reader_running = TRUE
  /\ fd = "open"
  /\ rpc = "recv"

\* no client yet: no socket, no reader thread
NoClient ==
  /\ connected = FALSE
  /\ reader_running = FALSE
  /\ fd = "none"
  /\ rpc = "none"

\* everything else: zeroed by calloc, initialised mutexes, idle threads
InitRest ==
  /\ request_id = 0
  /\ write_mutex = Free
  /\ pending_mutex = Free
  /\ subs_mutex = Free
  /\ pending_requests = <<>>
  /\ subscriptions = <<>>
  /\ clientFreed = FALSE
  /\ req = [c \in Callers |-> NoReq]
  /\ pc = [c \in Callers |-> "idle"]
  /\ op = [c \in Callers |-> "none"]
  /\ calls = [c \in Callers |-> 0]
  /\ tmp = [c \in Callers |-> 0]
  /\ rid = [c \in Callers |-> 0]
  /\ err = [c \in Callers |-> SQRL_OK]
  /\ response_out = [c \in Callers |-> NoFrame]
  /\ handle = [c \in Callers |-> 0]
  /\ msg = NoFrame
  /\ rmatch = "none"
  /\ wire = {}
  /\ inbox = <<>>
  /\ emitted = 0
  /\ peerClosed = FALSE
  /\ acked = {}
  /\ nseq = 0
  /\ dpc = "idle"
  /\ dcalls = 0
  /\ issued = {}
  /\ orphan = {}
  /\ delivered = <<>>
  /\ lost = {}
  /\ unsubbed = {}
  /\ ub = {}
  /\ subcall = [c \in Callers |-> 0]
  /\ gone = {}
  /\ fpc = "header"
  /\ fheader = <<>>
  /\ flength = 0
  /\ fgot = 0
  /\ ferr = SQRL_OK
  /\ sidret = NoAnswer
  /\ out = <<>>

\* nothing has been written into the socket by the peer
NoStream ==
  /\ encoded = <<>>
  /\ spos = 0
  /\ decoded = <<>>

\* the client as sqrl_connect returns it, with no call made yet
InitClient ==
  /\ ClientReturned
  /\ InitRest
  /\ NoStream
  /\ ConnectReturned([status |-> HANDSHAKE_SUCCESS, flags |-> 1,
                      sid |-> [i \in 1..16 |-> 0]])

Init == InitClient /\ workload = MixedWorkload

InitSubscribers == InitClient /\ workload = SubscribersWorkload

(* --------------------------- caller threads ---------------------------- *)
\* positions at which the next statement reads or writes the client struct
ClientPcs == {"nid_load", "nid_store", "sr_add", "sf_lock", "sf_send",
              "sr_fail_remove", "cleanup", "sub_add",
              "un_remove", "un_check", "un_lock", "un_send"}
\* positions at which the next statement reads or writes the caller's req
ReqPcs == {"sr_add", "sr_fail_remove", "wait_lock", "wait_check", "waiting",
           "wake_relock", "to_relock", "read_resp", "clear_resp", "cleanup",
           "sr_free"}

\* the caller's next statement touches memory sqrl_disconnect has freed
Dangling(c) ==
  \/ pc[c] \in ClientPcs /\ clientFreed
  \/ pc[c] \in ReqPcs /\ ~req[c].live

CallOf(c) == [c |-> c, n |-> calls[c]]

TotalCalls == calls["c1"] + calls["c2"]

\* an operation that does not test the liveness flag
ClosedCheckMissing(isConnected) == FALSE

\* the `if (!client->connected) return SQRL_ERR_CLOSED;` of every operation
ClosedCheck(isConnected) == ~isConnected

\* Entry of sqrl_ping / sqrl_query / sqrl_insert / sqrl_update / sqrl_delete /
\* sqrl_list_collections ("request") or sqrl_subscribe, with valid arguments.
Call(c, o) ==
  /\ pc[c] = "idle"
  /\ TotalCalls < workload.calls
  /\ ~clientFreed
  /\ o \in OpsOf(c)
  /\ o = "subscribe" => handle[c] = 0
  /\ calls' = [calls EXCEPT ![c] = @ + 1]
  /\ op' = [op EXCEPT ![c] = o]
  /\ response_out' = [response_out EXCEPT ![c] = NoFrame]
  /\ orphan' = orphan \ {c}
  /\ IF ClosedCheck(connected)
       THEN /\ err' = [err EXCEPT ![c] = SQRL_ERR_CLOSED]
            /\ pc' = [pc EXCEPT ![c] = "idle"]
       ELSE /\ err' = [err EXCEPT ![c] = SQRL_OK]
            /\ pc' = [pc EXCEPT ![c] = "nid_load"]
  /\ UNCHANGED <<subVars, outerVars, clientVars, req, tmp, rid, handle, readerVars, netVars,
                 appVars, issued, delivered, lost, unsubbed, ub>>

\* next_request_id: the read of `++client->request_id` (no lock is held)
NextIdLoad(c) ==
  /\ pc[c] = "nid_load"
  /\ ~Dangling(c)
  /\ tmp' = [tmp EXCEPT ![c] = request_id]
  /\ pc' = [pc EXCEPT ![c] = "nid_store"]
  /\ UNCHANGED <<subVars, outerVars, clientVars, req, op, calls, rid, err, response_out,
                 handle, readerVars, netVars, appVars, histVars>>

\* next_request_id: the write of `++client->request_id`, the id it returns,
\* and send_request's calloc and initialisation of the pending_request_t.
\* The counter is a uint64_t; it cannot wrap within MaxCalls calls.
NextIdStore(c) ==
  /\ pc[c] = "nid_store"
  /\ ~Dangling(c)
  /\ LET v == tmp[c] + 1
     IN /\ request_id' = v
        /\ rid' = [rid EXCEPT ![c] = v]
        /\ tmp' = [tmp EXCEPT ![c] = 0]
        /\ issued' = issued \cup {<<c, calls[c], v>>}
        /\ req' = [req EXCEPT ![c] = [id |-> v, response |-> NoFrame,
                                      completed |-> FALSE, mutex |-> Free,
                                      live |-> TRUE]]
  /\ pc' = [pc EXCEPT ![c] = "sr_add"]
  /\ UNCHANGED <<subVars, outerVars, connected, reader_running, fd, write_mutex, pending_mutex,
                 subs_mutex, pending_requests, subscriptions, clientFreed,
                 op, calls, err, response_out, handle,
                 readerVars, netVars, appVars,
                 orphan, delivered, lost, unsubbed, ub>>

\* a send_request that keeps pending_mutex locked until its cleanup
PendingAddKeepsLock(c) ==
  /\ pc[c] = "sr_add"
  /\ ~Dangling(c)
  /\ pending_mutex = Free
  /\ pending_mutex' = c
  /\ pending_requests' = <<c>> \o pending_requests
  /\ pc' = [pc EXCEPT ![c] = "sf_lock"]
  /\ UNCHANGED <<subVars, outerVars, connected, reader_running, request_id, fd, write_mutex,
                 subs_mutex, subscriptions, clientFreed, req,
                 op, calls, tmp, rid, err, response_out, handle,
                 readerVars, netVars, appVars, histVars>>

\* a send_request that goes on to send_frame without linking its entry
PendingAddSkipped(c) ==
  /\ pc[c] = "sr_add"
  /\ pc' = [pc EXCEPT ![c] = "sf_lock"]
  /\ UNCHANGED <<subVars, outerVars, clientVars, req, op, calls, tmp, rid, err,
                 response_out, handle, readerVars, netVars, appVars, histVars>>

\* send_request: add to the head of the pending list under pending_mutex
PendingAdd(c) ==
  /\ pc[c] = "sr_add"
  /\ ~Dangling(c)
  /\ pending_mutex = Free
  /\ pending_requests' = <<c>> \o pending_requests
  /\ pc' = [pc EXCEPT ![c] = "sf_lock"]
  /\ UNCHANGED <<subVars, outerVars, connected, reader_running, request_id, fd, write_mutex,
                 pending_mutex, subs_mutex, subscriptions, clientFreed, req,
                 op, calls, tmp, rid, err, response_out, handle,
                 readerVars, netVars, appVars, histVars>>

\* a send_frame that goes on to send_all without waiting for write_mutex
SendFrameUnlocked(c) ==
  /\ pc[c] \in {"sf_lock", "un_lock"}
  /\ ~Dangling(c)
  /\ write_mutex' = c
  /\ pc' = [pc EXCEPT ![c] = IF pc[c] = "sf_lock" THEN "sf_send" ELSE "un_send"]
  /\ UNCHANGED <<subVars, outerVars, connected, reader_running, request_id, fd, pending_mutex,
                 subs_mutex, pending_requests, subscriptions, clientFreed, req,
                 op, calls, tmp, rid, err, response_out, handle,
                 readerVars, netVars, appVars, histVars>>

\* send_frame: pthread_mutex_lock(&client->write_mutex)
SendFrameLock(c) ==
  /\ pc[c] \in {"sf_lock", "un_lock"}
  /\ ~Dangling(c)
  /\ write_mutex = Free
  /\ write_mutex' = c
  /\ pc' = [pc EXCEPT ![c] = IF pc[c] = "sf_lock" THEN "sf_send" ELSE "un_send"]
  /\ UNCHANGED <<subVars, outerVars, connected, reader_running, request_id, fd, pending_mutex,
                 subs_mutex, pending_requests, subscriptions, clientFreed, req,
                 op, calls, tmp, rid, err, response_out, handle,
                 readerVars, netVars, appVars, histVars>>

\* the frame send_frame writes for the caller's operation
RequestFrame(c) ==
  [id |-> IF pc[c] = "un_send" THEN handle[c] ELSE rid[c],
   type |-> op[c], from |-> CallOf(c)]

\* can send_all succeed / fail on the socket as it is now
SendCanSucceed == fd = "open"
SendCanFail == fd # "open" \/ peerClosed

\* send_frame: send_all and unlock, inside send_request
SendFrame(c) ==
  /\ pc[c] = "sf_send"
  /\ ~Dangling(c)
  /\ write_mutex' = Free
  /\ \/ /\ SendCanSucceed
        /\ wire' = IF peerClosed THEN wire ELSE wire \cup {RequestFrame(c)}
        /\ pc' = [pc EXCEPT ![c] = "wait_lock"]
        /\ err' = err
     \/ /\ SendCanFail
        /\ wire' = wire
        /\ err' = [err EXCEPT ![c] = SQRL_ERR_SEND]
        /\ pc' = [pc EXCEPT ![c] = "sr_fail_remove"]
  /\ UNCHANGED <<subVars, outerVars, connected, reader_running, request_id, fd, pending_mutex,
                 subs_mutex, pending_requests, subscriptions, clientFreed, req,
                 op, calls, tmp, rid, response_out, handle,
                 readerVars, inbox, emitted, peerClosed, acked, nseq,
                 appVars, histVars>>

\* send_request: unlink the entry under pending_mutex (send failure path and
\* the cleanup label)
PendingRemove(c) ==
  /\ pc[c] \in {"sr_fail_remove", "cleanup"}
  /\ ~Dangling(c)
  /\ pending_mutex = Free
  /\ pending_requests' = Unlink(pending_requests, c)
  /\ pc' = [pc EXCEPT ![c] = "sr_free"]
  /\ UNCHANGED <<subVars, outerVars, connected, reader_running, request_id, fd, write_mutex,
                 pending_mutex, subs_mutex, subscriptions, clientFreed, req,
                 op, calls, tmp, rid, err, response_out, handle,
                 readerVars, netVars, appVars, histVars>>

\* send_request: pthread_mutex_lock(&req->mutex) before the wait loop
WaitLock(c) ==
  /\ pc[c] = "wait_lock"
  /\ ~Dangling(c)
  /\ req[c].mutex = Free
  /\ req' = [req EXCEPT ![c].mutex = c]
  /\ pc' = [pc EXCEPT ![c] = "wait_check"]
  /\ UNCHANGED <<subVars, outerVars, clientVars, op, calls, tmp, rid, err, response_out,
                 handle, readerVars, netVars, appVars, histVars>>

\* a send_request that leaves the wait loop without unlocking req->mutex
WaitCheckKeepsMutex(c) ==
  /\ pc[c] = "wait_check"
  /\ ~Dangling(c)
  /\ req' = [req EXCEPT ![c].mutex = IF req[c].completed THEN c ELSE Free]
  /\ pc' = [pc EXCEPT ![c] = IF req[c].completed THEN "read_resp" ELSE "waiting"]
  /\ UNCHANGED <<subVars, outerVars, clientVars, op, calls, tmp, rid, err, response_out,
                 handle, readerVars, netVars, appVars, histVars>>

\* send_request: `while (!req->completed)`: leave the loop and unlock, or
\* enter pthread_cond_timedwait, which releases req->mutex
WaitCheck(c) ==
  /\ pc[c] = "wait_check"
  /\ ~Dangling(c)
  /\ req' = [req EXCEPT ![c].mutex = Free]
  /\ pc' = [pc EXCEPT ![c] = IF req[c].completed THEN "read_resp" ELSE "waiting"]
  /\ UNCHANGED <<subVars, outerVars, clientVars, op, calls, tmp, rid, err, response_out,
                 handle, readerVars, netVars, appVars, histVars>>

\* a wait without a deadline (pthread_cond_wait)
WaitNeverExpires(c) ==
  /\ pc[c] = "waiting"
  /\ FALSE
  /\ UNCHANGED vars

\* pthread_cond_timedwait stops waiting because request_timeout_ms have
\* passed since the wait began
WaitExpired(c) ==
  /\ pc[c] = "waiting"
  /\ ~Dangling(c)
  /\ pc' = [pc EXCEPT ![c] = "to_relock"]
  /\ UNCHANGED <<subVars, outerVars, clientVars, req, op, calls, tmp, rid, err, response_out, handle, readerVars, netVars, appVars, histVars>>

\* pthread_cond_timedwait re-acquires req->mutex and returns 0 (signalled)
WakeRelock(c) ==
  /\ pc[c] = "wake_relock"
  /\ ~Dangling(c)
  /\ req[c].mutex = Free
  /\ req' = [req EXCEPT ![c].mutex = c]
  /\ pc' = [pc EXCEPT ![c] = "wait_check"]
  /\ UNCHANGED <<subVars, outerVars, clientVars, op, calls, tmp, rid, err, response_out,
                 handle, readerVars, netVars, appVars, histVars>>

\* pthread_cond_timedwait re-acquires req->mutex and returns ETIMEDOUT;
\* send_request unlocks, sets err = SQRL_ERR_TIMEOUT and jumps to cleanup
TimedOut(c) ==
  /\ pc[c] = "to_relock"
  /\ ~Dangling(c)
  /\ req[c].mutex = Free
  /\ err' = [err EXCEPT ![c] = SQRL_ERR_TIMEOUT]
  /\ pc' = [pc EXCEPT ![c] = "cleanup"]
  /\ UNCHANGED <<subVars, outerVars, clientVars, req, op, calls, tmp, rid, response_out,
                 handle, readerVars, netVars, appVars, histVars>>

\* send_request: `if (req->response) *response_out = req->response;`
\* (req->mutex is not held)
ReadResponse(c) ==
  /\ pc[c] = "read_resp"
  /\ ~Dangling(c)
  /\ IF req[c].response # NoFrame
       THEN /\ response_out' = [response_out EXCEPT ![c] = req[c].response]
            /\ pc' = [pc EXCEPT ![c] = "clear_resp"]
            /\ err' = err
       ELSE /\ err' = [err EXCEPT ![c] = SQRL_ERR_RECV]
            /\ pc' = [pc EXCEPT ![c] = "cleanup"]
            /\ response_out' = response_out
  /\ UNCHANGED <<subVars, outerVars, clientVars, req, op, calls, tmp, rid, handle,
                 readerVars, netVars, appVars, histVars>>

\* send_request: `req->response = NULL; err = SQRL_OK;`
ClearResponse(c) ==
  /\ pc[c] = "clear_resp"
  /\ ~Dangling(c)
  /\ req' = [req EXCEPT ![c].response = NoFrame]
  /\ err' = [err EXCEPT ![c] = SQRL_OK]
  /\ pc' = [pc EXCEPT ![c] = "cleanup"]
  /\ UNCHANGED <<subVars, outerVars, clientVars, op, calls, tmp, rid, response_out,
                 handle, readerVars, netVars, appVars, histVars>>

\* an operation that looks only at send_request's error, not at the type of
\* the response
OpResultIgnoresType(e, resp) == e

\* what the operation returns once send_request has returned: its error, or
\* SQRL_ERR_SERVER for an error-typed response, else success
OpResult(e, resp) ==
  IF e # SQRL_OK THEN e
  ELSE IF resp.type = "error" THEN SQRL_ERR_SERVER
  ELSE SQRL_OK

\* send_request frees the entry and returns; the operation inspects the
\* response type and returns (a request), or goes on to register the
\* subscription (sqrl_subscribe after a non-error acknowledgment)
FreeAndReturn(c) ==
  /\ pc[c] = "sr_free"
  /\ ~Dangling(c)
  /\ req' = [req EXCEPT ![c] = NoReq]
  /\ response_out' = [response_out EXCEPT ![c] = NoFrame]
  /\ LET r == OpResult(err[c], response_out[c])
     IN /\ err' = [err EXCEPT ![c] = r]
        /\ pc' = [pc EXCEPT ![c] =
                    IF op[c] = "subscribe" /\ r = SQRL_OK THEN "sub_add"
                    ELSE "idle"]
  /\ UNCHANGED <<subVars, outerVars, clientVars, op, calls, tmp, rid,
                 handle, readerVars, netVars, appVars, histVars>>

\* sqrl_subscribe: add the registry entry at the head under subs_mutex and
\* hand out the subscription handle
SubscribeAdd(c) ==
  /\ pc[c] = "sub_add"
  /\ ~Dangling(c)
  /\ subs_mutex = Free
  /\ subscriptions' = <<[id |-> rid[c], cb |-> CallOf(c)]>> \o subscriptions
  /\ handle' = [handle EXCEPT ![c] = rid[c]]
  /\ subcall' = [subcall EXCEPT ![c] = calls[c]]
  /\ pc' = [pc EXCEPT ![c] = "idle"]
  /\ UNCHANGED <<gone, outerVars, connected, reader_running, request_id, fd, write_mutex,
                 pending_mutex, subs_mutex, pending_requests, clientFreed,
                 req, op, calls, tmp, rid, err, response_out,
                 readerVars, netVars, appVars, histVars>>

\* Entry of sqrl_unsubscribe with the handle the caller holds
CallUnsubscribe(c) ==
  /\ pc[c] = "idle"
  /\ TotalCalls < workload.calls
  /\ ~clientFreed
  /\ handle[c] # 0
  /\ calls' = [calls EXCEPT ![c] = @ + 1]
  /\ op' = [op EXCEPT ![c] = "unsubscribe"]
  /\ response_out' = [response_out EXCEPT ![c] = NoFrame]
  /\ err' = [err EXCEPT ![c] = SQRL_OK]
  /\ unsubbed' = unsubbed \cup {handle[c]}
  /\ orphan' = orphan \ {c}
  /\ pc' = [pc EXCEPT ![c] = "un_remove"]
  /\ UNCHANGED <<subVars, outerVars, clientVars, req, tmp, rid, handle, readerVars,
                 netVars, appVars, issued, delivered, lost, ub>>

\* sqrl_unsubscribe: remove the registry entry under subs_mutex
UnsubscribeRemove(c) ==
  /\ pc[c] = "un_remove"
  /\ ~Dangling(c)
  /\ subs_mutex = Free
  /\ subscriptions' = RemoveSub(subscriptions, handle[c])
  /\ pc' = [pc EXCEPT ![c] = "un_check"]
  /\ UNCHANGED <<subVars, outerVars, connected, reader_running, request_id, fd, write_mutex,
                 pending_mutex, subs_mutex, pending_requests, clientFreed,
                 req, op, calls, tmp, rid, err, response_out, handle,
                 readerVars, netVars, appVars, histVars>>

\* sqrl_unsubscribe: `if (client->connected)` send the unsubscribe frame,
\* else free the handle and return SQRL_OK
UnsubscribeCheck(c) ==
  /\ pc[c] = "un_check"
  /\ ~Dangling(c)
  /\ IF connected
       THEN /\ pc' = [pc EXCEPT ![c] = "un_lock"]
            /\ handle' = handle
            /\ gone' = gone
       ELSE /\ pc' = [pc EXCEPT ![c] = "idle"]
            /\ handle' = [handle EXCEPT ![c] = 0]
            /\ gone' = gone \cup {[c |-> c, n |-> subcall[c]]}
  /\ UNCHANGED <<subcall, outerVars, clientVars, req, op, calls, tmp, rid, err, response_out, readerVars, netVars, appVars, histVars>>

\* sqrl_unsubscribe: send_frame (its result is ignored), free the handle,
\* return SQRL_OK
UnsubscribeSend(c) ==
  /\ pc[c] = "un_send"
  /\ ~Dangling(c)
  /\ write_mutex' = Free
  /\ \/ /\ SendCanSucceed
        /\ wire' = IF peerClosed THEN wire ELSE wire \cup {RequestFrame(c)}
     \/ /\ SendCanFail
        /\ wire' = wire
  /\ handle' = [handle EXCEPT ![c] = 0]
  /\ gone' = gone \cup {[c |-> c, n |-> subcall[c]]}
  /\ pc' = [pc EXCEPT ![c] = "idle"]
  /\ UNCHANGED <<subcall, outerVars, connected, reader_running, request_id, fd, pending_mutex,
                 subs_mutex, pending_requests, subscriptions, clientFreed, req,
                 op, calls, tmp, rid, err, response_out,
                 readerVars, inbox, emitted, peerClosed, acked, nseq,
                 appVars, histVars>>

\* A caller's statement reads or writes a pending entry, a mutex, a
\* condition variable or the client struct after sqrl_disconnect destroyed
\* and freed it.  The behaviour is undefined: the process aborts (every
\* thread stops), or the thread never returns, or the call returns some
\* value.
UseAfterFree(c) ==
  /\ Dangling(c)
  /\ ub' = ub \cup {<<c, IF pc[c] \in ReqPcs /\ ~req[c].live
                          THEN "freed_request" ELSE "freed_client">>}
  /\ \/ /\ pc' = [d \in Callers |-> "crashed"]
        /\ dpc' = "crashed"
        /\ err' = err
     \/ /\ pc' = [pc EXCEPT ![c] = "idle"]
        /\ dpc' = dpc
        /\ \E e \in {SQRL_OK, SQRL_ERR_TIMEOUT} :
             err' = [err EXCEPT ![c] = e]
  /\ UNCHANGED <<subVars, outerVars, clientVars, req, op, calls, tmp, rid, response_out,
                 handle, readerVars, netVars, dcalls,
                 issued, orphan, delivered, lost, unsubbed>>

CallerStep(c) ==
  \/ \E o \in OpsOf(c) : Call(c, o)
  \/ NextIdLoad(c)
  \/ NextIdStore(c)
  \/ PendingAdd(c)
  \/ SendFrameLock(c)
  \/ SendFrame(c)
  \/ PendingRemove(c)
  \/ WaitLock(c)
  \/ WaitCheck(c)
  \/ WaitExpired(c)
  \/ WakeRelock(c)
  \/ TimedOut(c)
  \/ ReadResponse(c)
  \/ ClearResponse(c)
  \/ FreeAndReturn(c)
  \/ SubscribeAdd(c)
  \/ CallUnsubscribe(c)
  \/ UnsubscribeRemove(c)
  \/ UnsubscribeCheck(c)
  \/ UnsubscribeSend(c)

(* ---------------------------- reader thread ---------------------------- *)
\* a recv_frame that checks only the lower bound of the declared length
DecodeFailsNoCap(f) == f.length < 2

\* recv_frame's check of the declared length of a header
DecodeFails(f) == f.length < 2 \/ f.length > SQRL_MAX_MESSAGE_SIZE

\* where reader_thread_func sends a decoded message: "disp_change",
\* "disp_resp", or "recv" when the message is dropped
Route(f) ==
  IF f.id = 0 \/ f.type = "null" THEN "recv"
  ELSE IF f.type = "change"
         THEN IF f.change.present THEN "disp_change" ELSE "recv"
  ELSE "disp_resp"

\* the callers whose request is outstanding: the entry is registered, the
\* frame is written, no completion is recorded and the wait has not ended
Outstanding ==
  {c \in Callers : /\ \E i \in 1..Len(pending_requests) : pending_requests[i] = c
                   /\ ~req[c].completed
                   /\ pc[c] \in {"wait_lock", "wait_check", "waiting"}}

\* a reader that hands the callback to another thread and reads on
CanReadInCallback(p) == p \in {"recv", "in_callback"}

\* reader_thread_func calls recv_frame at the top of its loop only: after
\* dispatch_change or dispatch_response has returned
CanRead(p) == p = "recv"

\* reader_thread_func: the loop test, recv_frame, and the routing of the
\* decoded message; on a receive or decode error it clears `connected`
\* (when reader_running is still set) and leaves the loop
ReaderRecv ==
  /\ CanRead(rpc)
  /\ IF ~reader_running
       THEN /\ rpc' = "exited"
            /\ UNCHANGED <<connected, msg, inbox, orphan>>
       ELSE \/ /\ fd = "open"
               /\ inbox # <<>>
               /\ ~DecodeFails(Head(inbox))
               /\ inbox' = Tail(inbox)
               /\ rpc' = Route(Head(inbox))
               /\ msg' = IF rpc' = "recv" THEN NoFrame ELSE Head(inbox)
               /\ UNCHANGED <<connected, orphan>>
            \/ /\ \/ fd # "open"
                  \/ inbox = <<>> /\ peerClosed
                  \/ inbox # <<>> /\ DecodeFails(Head(inbox))
               /\ connected' = FALSE
               /\ rpc' = "exited"
               /\ orphan' = orphan \cup Outstanding
               /\ inbox' = IF fd = "open" /\ inbox # <<>> THEN Tail(inbox) ELSE inbox
               /\ msg' = msg
  /\ UNCHANGED <<subVars, outerVars, reader_running, request_id, fd, write_mutex, pending_mutex,
                 subs_mutex, pending_requests, subscriptions, clientFreed,
                 req, callerVars, rmatch, wire, emitted, peerClosed, acked,
                 nseq, appVars, issued, delivered, lost, unsubbed, ub>>

\* dispatch_response: lock pending_mutex and walk the list for the id
DispatchResponseFind ==
  /\ rpc = "disp_resp"
  /\ pending_mutex = Free
  /\ LET m == FindPending(pending_requests, msg.id)
     IN IF m = "none"
          THEN /\ rpc' = "recv"
               /\ msg' = NoFrame
               /\ UNCHANGED <<pending_mutex, rmatch>>
          ELSE /\ pending_mutex' = Reader
               /\ rmatch' = m
               /\ rpc' = "disp_set"
               /\ msg' = msg
  /\ UNCHANGED <<subVars, outerVars, connected, reader_running, request_id, fd, write_mutex,
                 subs_mutex, pending_requests, subscriptions, clientFreed,
                 req, callerVars, netVars, appVars, histVars>>

\* dispatch_response: lock req->mutex, store the response, set completed,
\* pthread_cond_signal (wakes the waiter if it is blocked in the timed
\* wait), unlock both mutexes
DispatchResponseSet ==
  /\ rpc = "disp_set"
  /\ req[rmatch].mutex = Free
  /\ req' = [req EXCEPT ![rmatch] = [@ EXCEPT !.response = msg,
                                              !.completed = TRUE]]
  /\ pc' = [pc EXCEPT ![rmatch] = IF @ = "waiting" THEN "wake_relock" ELSE @]
  /\ pending_mutex' = Free
  /\ rpc' = "recv"
  /\ rmatch' = "none"
  /\ msg' = NoFrame
  /\ UNCHANGED <<subVars, outerVars, connected, reader_running, request_id, fd, write_mutex,
                 subs_mutex, pending_requests, subscriptions, clientFreed,
                 op, calls, tmp, rid, err, response_out, handle,
                 netVars, appVars, histVars>>

\* dispatch_change: event.type from the "type" string of the change object;
\* the event is zero-initialised, so a string that is none of the four
\* leaves SQRL_CHANGE_INITIAL
ChangeType(type_str) ==
  IF type_str = "initial" THEN SQRL_CHANGE_INITIAL
  ELSE IF type_str = "insert" THEN SQRL_CHANGE_INSERT
  ELSE IF type_str = "update" THEN SQRL_CHANGE_UPDATE
  ELSE IF type_str = "delete" THEN SQRL_CHANGE_DELETE
  ELSE 0

\* dispatch_change: the sqrl_change_event_t handed to the callback:
\* `event = {0}`, then only event.type is assigned
ChangeEvent(ch) ==
  [type |-> ChangeType(ch.type), document |-> "NULL", new_doc |-> "NULL",
   old_data |-> "NULL"]

\* dispatch_change: lock subs_mutex, walk the registry; on a match build the
\* event and call the callback (subs_mutex stays held), else unlock
DispatchChange ==
  /\ rpc = "disp_change"
  /\ subs_mutex = Free
  /\ IF FindSub(subscriptions, msg.id)
       THEN /\ subs_mutex' = Reader
            /\ LET e == FirstSub(subscriptions, msg.id)
               IN delivered' = Append(delivered,
                                      [id |-> msg.id, seq |-> msg.seq,
                                       change |-> msg.change,
                                       event |-> ChangeEvent(msg.change),
                                       cb |-> e.cb,
                                       late |-> e.cb \in gone])
            /\ rpc' = "in_callback"
            /\ lost' = lost
       ELSE /\ lost' = lost \cup {[id |-> msg.id, seq |-> msg.seq]}
            /\ rpc' = "recv"
            /\ UNCHANGED <<subs_mutex, delivered>>
  /\ msg' = NoFrame
  /\ UNCHANGED <<subVars, outerVars, connected, reader_running, request_id, fd, write_mutex,
                 pending_mutex, pending_requests, subscriptions, clientFreed,
                 req, callerVars, rmatch, netVars, appVars,
                 issued, orphan, unsubbed, ub>>

\* dispatch_change: the callback returns; unlock subs_mutex
CallbackReturn ==
  /\ rpc = "in_callback"
  /\ subs_mutex' = Free
  /\ rpc' = "recv"
  /\ UNCHANGED <<subVars, outerVars, connected, reader_running, request_id, fd, write_mutex,
                 pending_mutex, pending_requests, subscriptions, clientFreed,
                 req, callerVars, msg, rmatch, netVars, appVars, histVars>>

ReaderStep ==
  \/ ReaderRecv
  \/ DispatchResponseFind
  \/ DispatchResponseSet
  \/ DispatchChange
  \/ CallbackReturn

(* ------------------------------ the server ----------------------------- *)
\* The peer: it answers requests it has received (at any later time, in any
\* order, possibly more than once), emits notifications for a subscription
\* only after it has put the acknowledgment on the wire, may send a frame
\* whose declared length is out of range, and may close the socket.  Frames
\* written once the reader has stopped reading are never read and are left out.
\* the declared length of a well-formed frame: 2 + the payload's length, the
\* payload being at least the text {"type":"x","id":"1"}
ValidLength == 2 + 23

ServerEmit(f) ==
  /\ emitted < workload.frames
  /\ ~peerClosed
  /\ fd = "open"
  /\ rpc # "exited"
  /\ inbox' = Append(inbox, f)
  /\ emitted' = emitted + 1

ServerRespond ==
  /\ \E r \in wire, ty \in {"result", "error"} :
       /\ r.type \in {"request", "subscribe"}
       /\ ServerEmit([length |-> ValidLength, id |-> r.id, type |-> ty,
                      change |-> NoChange, origin |-> r.from, seq |-> 0])
       /\ acked' = IF r.type = "subscribe" /\ ty = "result"
                     THEN acked \cup {r.id} ELSE acked
  /\ UNCHANGED <<subVars, outerVars, clientVars, req, callerVars, readerVars, wire, peerClosed,
                 nseq, appVars, histVars>>

ServerNotify ==
  /\ \E s \in acked, ch \in Changes :
       /\ ch.type \in workload.changes
       /\ ServerEmit([length |-> ValidLength, id |-> s, type |-> "change",
                      change |-> ch, origin |-> NoOrigin, seq |-> nseq + 1])
  /\ nseq' = nseq + 1
  /\ UNCHANGED <<subVars, outerVars, clientVars, req, callerVars, readerVars, wire, peerClosed,
                 acked, appVars, histVars>>

ServerBadFrame ==
  /\ \E n \in {1, SQRL_MAX_MESSAGE_SIZE + 1} :
       ServerEmit([NoFrame EXCEPT !.length = n])
  /\ UNCHANGED <<subVars, outerVars, clientVars, req, callerVars, readerVars, wire, peerClosed,
                 acked, nseq, appVars, histVars>>

ServerClose ==
  /\ ~peerClosed
  /\ fd = "open"
  /\ peerClosed' = TRUE
  /\ UNCHANGED <<subVars, outerVars, clientVars, req, callerVars, readerVars, wire, inbox,
                 emitted, acked, nseq, appVars, histVars>>

\* an id no request of this connection carries
UnknownId == 99

\* a peer that pushes a change frame bearing the id of a request it has
\* received and not acknowledged as a subscription
ServerEarlyChange ==
  /\ \E r \in wire, ch \in Changes :
       /\ r.type \in {"request", "subscribe"}
       /\ r.id \notin acked
       /\ ch.type \in workload.changes
       /\ ServerEmit([length |-> ValidLength, id |-> r.id, type |-> "change",
                      change |-> ch, origin |-> NoOrigin, seq |-> nseq + 1])
  /\ nseq' = nseq + 1
  /\ UNCHANGED <<subVars, outerVars, clientVars, req, callerVars, readerVars, wire, peerClosed,
                 acked, appVars, histVars>>

\* a peer that sends a response or a change frame whose id no request of
\* this connection carries
ServerUnknownId ==
  /\ \E ty \in {"result", "change"} :
       ServerEmit([length |-> ValidLength, id |-> UnknownId, type |-> ty,
                   change |-> IF ty = "change"
                                THEN CHOOSE ch \in Changes : ch.type = "insert"
                                ELSE NoChange,
                   origin |-> NoOrigin, seq |-> 0])
  /\ UNCHANGED <<subVars, outerVars, clientVars, req, callerVars, readerVars, wire, peerClosed,
                 acked, nseq, appVars, histVars>>

ServerStep ==
  \/ ServerRespond
  \/ ServerNotify
  \/ ServerBadFrame
  \/ ServerClose

(* --------------------------- sqrl_disconnect --------------------------- *)
\* sqrl_disconnect: `client->reader_running = false; client->connected =
\* false;`.  A call on a client that an earlier sqrl_disconnect has freed
\* writes to freed memory.
DisconnectStart ==
  /\ dpc = "idle"
  /\ dcalls < MaxDisconnects
  /\ dcalls' = dcalls + 1
  /\ IF clientFreed
       THEN /\ ub' = ub \cup {<<"app", "freed_client">>}
            /\ \/ dpc' = "crashed" /\ pc' = [d \in Callers |-> "crashed"]
               \/ dpc' = "idle" /\ pc' = pc
            /\ UNCHANGED <<connected, reader_running>>
       ELSE /\ reader_running' = FALSE
            /\ connected' = FALSE
            /\ dpc' = "d_close"
            /\ ub' = ub
            /\ pc' = pc
  /\ UNCHANGED <<subVars, outerVars, request_id, fd, write_mutex, pending_mutex, subs_mutex,
                 pending_requests, subscriptions, clientFreed, req,
                 op, calls, tmp, rid, err, response_out, handle,
                 readerVars, netVars,
                 issued, orphan, delivered, lost, unsubbed>>

\* sqrl_disconnect: shutdown(fd, SHUT_RDWR); close(fd); fd = -1
DisconnectClose ==
  /\ dpc = "d_close"
  /\ fd' = "closed"
  /\ dpc' = "d_join"
  /\ UNCHANGED <<subVars, outerVars, connected, reader_running, request_id, write_mutex,
                 pending_mutex, subs_mutex, pending_requests, subscriptions,
                 clientFreed, req, callerVars, readerVars, netVars, dcalls,
                 histVars>>

\* sqrl_disconnect: pthread_join(client->reader_thread)
DisconnectJoin ==
  /\ dpc = "d_join"
  /\ rpc = "exited"
  /\ dpc' = "d_free_pending"
  /\ UNCHANGED <<subVars, outerVars, clientVars, req, callerVars, readerVars, netVars, dcalls,
                 histVars>>

\* sqrl_disconnect: walk pending_requests (no lock is taken, no waiter is
\* signalled) and, for each entry, free its strings, destroy its mutex and
\* condition variable and free it
DisconnectFreePending ==
  /\ dpc = "d_free_pending"
  /\ req' = [c \in Callers |->
               IF \E i \in 1..Len(pending_requests) : pending_requests[i] = c
                 THEN NoReq
                 ELSE req[c]]
  /\ dpc' = "d_free_client"
  /\ UNCHANGED <<subVars, outerVars, clientVars, callerVars, readerVars, netVars, dcalls,
                 histVars>>

\* sqrl_disconnect: free the registry entries, destroy the three client
\* mutexes, free the session id and the client (its lists are gone with it)
DisconnectFreeClient ==
  /\ dpc = "d_free_client"
  /\ subscriptions' = <<>>
  /\ pending_requests' = <<>>
  /\ clientFreed' = TRUE
  /\ dpc' = "idle"
  /\ UNCHANGED <<subVars, outerVars, connected, reader_running, request_id, fd, write_mutex,
                 pending_mutex, subs_mutex, req, callerVars, readerVars,
                 netVars, dcalls, histVars>>

AppStep ==
  \/ DisconnectStart
  \/ DisconnectClose
  \/ DisconnectJoin
  \/ DisconnectFreePending
  \/ DisconnectFreeClient

(* ----------------------------- sqrl_connect ---------------------------- *)
\* what sqrl_connect does not touch
idleVars == <<request_id, write_mutex, pending_mutex, subs_mutex,
              pending_requests, subscriptions, clientFreed, req, callerVars,
              msg, rmatch, netVars, appVars, histVars, subVars, workload,
              frameVars, sidret, out, streamVars>>

\* an entry point that does not test its pointers
ArgCheckMissing(valid) == FALSE

\* `if (!client_out || !host) return SQRL_ERR_INVALID_ARG;` and the like in
\* every operation
ArgCheck(valid) == ~valid

\* a sqrl_connect that reports a refused TCP connect as a timeout
ConnectFailureAsTimeout(stage) ==
  IF stage = "tcp" THEN SQRL_ERR_TIMEOUT ELSE SQRL_ERR_CONNECT

\* sqrl_connect: the return value when getaddrinfo, socket or connect fails
ConnectFailure(stage) == SQRL_ERR_CONNECT

\* a failing path that forgets close(client->fd)
LeakFd(f) == f

\* close(client->fd) on a failing path
CloseFd(f) == "closed"

\* a failing path of sqrl_connect after its allocation: close the socket if
\* one was opened, free the session id and the client, return e
ConnectFail(stage, e) ==
  /\ cfail' = stage
  /\ cerr' = e
  /\ fd' = IF fd = "open" THEN CloseFd(fd) ELSE fd
  /\ session_id' = <<>>
  /\ cclient' = "freed"
  /\ cpc' = "done"

\* sqrl_connect: argument check, calloc of the client, mutex initialisation
ConnectEnter ==
  /\ cpc = "start"
  /\ IF ArgCheck(cargs.client_out /\ cargs.host)
       THEN /\ cerr' = SQRL_ERR_INVALID_ARG
            /\ cpc' = "done"
            /\ cclient' = cclient
            /\ request_timeout_ms' = request_timeout_ms
       ELSE /\ cclient' = "allocated"
            /\ request_timeout_ms' = RequestTimeout(cargs.options)
            /\ cpc' = "resolve"
            /\ cerr' = cerr
  /\ UNCHANGED <<connected, reader_running, fd, rpc, cargs, hresp, herr,
                 client_out, session_id, encoding, cfail, hpacket, htimeout,
                 idleVars>>

\* sqrl_connect: getaddrinfo
ConnectResolve ==
  /\ cpc = "resolve"
  /\ \/ /\ cpc' = "socket"
        /\ UNCHANGED <<fd, cclient, cerr, session_id, cfail>>
     \/ ConnectFail("resolve", ConnectFailure("resolve"))
  /\ UNCHANGED <<connected, reader_running, rpc, cargs, hresp, herr,
                 client_out, encoding, request_timeout_ms, hpacket, htimeout,
                 idleVars>>

\* sqrl_connect: socket()
ConnectSocket ==
  /\ cpc = "socket"
  /\ \/ /\ fd' = "open"
        /\ cpc' = "tcp"
        /\ UNCHANGED <<cclient, cerr, session_id, cfail>>
     \/ ConnectFail("socket", ConnectFailure("socket"))
  /\ UNCHANGED <<connected, reader_running, rpc, cargs, hresp, herr,
                 client_out, encoding, request_timeout_ms, hpacket, htimeout,
                 idleVars>>

\* sqrl_connect: connect()
ConnectTcp ==
  /\ cpc = "tcp"
  /\ \/ /\ cpc' = "hs_send"
        /\ UNCHANGED <<fd, cclient, cerr, session_id, cfail>>
     \/ ConnectFail("tcp", ConnectFailure("tcp"))
  /\ UNCHANGED <<connected, reader_running, rpc, cargs, hresp, herr,
                 client_out, encoding, request_timeout_ms, hpacket, htimeout,
                 idleVars>>

\* do_handshake: build and send the handshake packet; a failed send_all
\* returns SQRL_ERR_SEND, which sqrl_connect returns after its cleanup
HandshakeSend ==
  /\ cpc = "hs_send"
  /\ hpacket' = HandshakePacket(cargs.options)
  /\ \/ /\ cpc' = "hs_recv"
        /\ UNCHANGED <<fd, cclient, cerr, session_id, cfail, herr>>
     \/ /\ herr' = SQRL_ERR_SEND
        /\ ConnectFail("write", SQRL_ERR_SEND)
  /\ UNCHANGED <<connected, reader_running, rpc, cargs, hresp,
                 client_out, encoding, request_timeout_ms, htimeout,
                 idleVars>>

\* do_handshake: recv_all of the 19-byte response.  recv_all returns -1 on
\* a receive error, on the peer closing before 19 bytes arrived and on the
\* select timeout alike, and do_handshake returns SQRL_ERR_RECV; a complete
\* response is mapped by its status byte, and on success the session id
\* and the encoding are stored in the client.
HandshakeRecv ==
  /\ cpc = "hs_recv"
  /\ htimeout' = HandshakeTimeout(cargs.options)
  /\ \/ /\ \E how \in {"read", "eof", "timeout"} :
             /\ how = "timeout" => htimeout' > 0
             /\ ConnectFail(how, SQRL_ERR_RECV)
        /\ herr' = SQRL_ERR_RECV
        /\ UNCHANGED <<hresp, encoding>>
     \/ \E r \in Responses :
          /\ hresp' = r
          /\ herr' = HandshakeResult(r.status)
          /\ IF herr' = SQRL_OK
               THEN /\ session_id' = uuid_to_string(r.sid)
                    /\ encoding' = NegotiatedEncoding(r.flags)
                    /\ cpc' = "thread"
                    /\ UNCHANGED <<fd, cclient, cerr, cfail>>
               ELSE /\ ConnectFail("status", herr')
                    /\ encoding' = encoding
  /\ UNCHANGED <<connected, reader_running, rpc, cargs, client_out,
                 request_timeout_ms, hpacket, idleVars>>

\* sqrl_connect: set connected and reader_running, pthread_create the
\* reader, write *client_out and return SQRL_OK; or, when pthread_create
\* fails, clean up and return SQRL_ERR_CONNECT
ConnectStartReader ==
  /\ cpc = "thread"
  /\ \/ /\ connected' = TRUE
        /\ reader_running' = TRUE
        /\ rpc' = "recv"
        /\ client_out' = "client"
        /\ cerr' = SQRL_OK
        /\ cpc' = "done"
        /\ UNCHANGED <<fd, cclient, session_id, cfail>>
     \/ /\ ConnectFail("thread", SQRL_ERR_CONNECT)
        /\ UNCHANGED <<connected, reader_running, rpc, client_out>>
  /\ UNCHANGED <<cargs, hresp, herr, encoding, request_timeout_ms, hpacket,
                 htimeout, idleVars>>

ConnectStep ==
  \/ ConnectEnter
  \/ ConnectResolve
  \/ ConnectSocket
  \/ ConnectTcp
  \/ HandshakeSend
  \/ HandshakeRecv
  \/ ConnectStartReader

\* Entry of sqrl_query / sqrl_insert / sqrl_update / sqrl_delete /
\* sqrl_list_collections / sqrl_subscribe with a NULL client or another
\* NULL required pointer: the first statement returns SQRL_ERR_INVALID_ARG
CallInvalid(c, o) ==
  /\ pc[c] = "idle"
  /\ TotalCalls < workload.calls
  /\ calls' = [calls EXCEPT ![c] = @ + 1]
  /\ op' = [op EXCEPT ![c] = IF o = "request" THEN "request(NULL)"
                             ELSE "subscribe(NULL)"]
  /\ IF ArgCheck(FALSE)
       THEN /\ err' = [err EXCEPT ![c] = SQRL_ERR_INVALID_ARG]
            /\ pc' = pc
       ELSE /\ err' = [err EXCEPT ![c] = SQRL_OK]
            /\ pc' = [pc EXCEPT ![c] = "nid_load"]
  /\ UNCHANGED <<clientVars, req, tmp, rid, response_out, handle, readerVars,
                 netVars, appVars, histVars, subVars, outerVars>>

(* ------------------ sqrl_session_id, sqrl_is_connected ----------------- *)
\* `return client ? client->session_id : NULL;` (<<>> is NULL)
sqrl_session_id(isNull) == IF isNull THEN <<>> ELSE session_id

\* `return client && client->connected;`
sqrl_is_connected(isNull) == ~isNull /\ connected

\* the application asks for the session id and the liveness of the client
\* it holds, or of a NULL client
SessionIdCall(isNull) ==
  /\ sidret' = [called |-> TRUE, null_client |-> isNull,
                session |-> sqrl_session_id(isNull),
                is_connected |-> sqrl_is_connected(isNull)]
  /\ sidret' # sidret
  /\ UNCHANGED <<clientVars, req, callerVars, readerVars, netVars, appVars,
                 histVars, subVars, workload, connVars, frameVars, out,
                 streamVars>>

(* ------------------------------ recv_frame ----------------------------- *)
\* read_u32_be: four bytes, most significant first
read_u32_be(buf) ==
  buf[1] * 16777216 + buf[2] * 65536 + buf[3] * 256 + buf[4]

\* the length bytes a peer may send.  The first byte stays below 128 to keep
\* the sum inside the model's integers; every length with a larger first
\* byte is above the cap like the ones with 127.
Headers ==
  {<<b1, b2, b3, b4>> :
     b1 \in {0, 1, 127}, b2 \in {0, 255}, b3 \in {0, 255},
     b4 \in {0, 1, 2, 3, 255}}

\* recv_frame: recv_all of the 6 header bytes
RecvHeader ==
  /\ fpc = "header"
  /\ \/ /\ \E h \in Headers : fheader' = h
        /\ fpc' = "check"
        /\ ferr' = ferr
     \/ /\ ferr' = SQRL_ERR_RECV
        /\ fpc' = "done"
        /\ fheader' = fheader
  /\ UNCHANGED <<clientVars, req, callerVars, readerVars, netVars, appVars,
                 histVars, subVars, workload, connVars, sidret, out, streamVars, flength,
                 fgot>>

\* recv_frame: decode the length, refuse it when out of range
RecvCheckLength ==
  /\ fpc = "check"
  /\ flength' = read_u32_be(fheader)
  /\ IF DecodeFails([length |-> flength'])
       THEN /\ ferr' = SQRL_ERR_DECODE
            /\ fpc' = "done"
       ELSE /\ ferr' = ferr
            /\ fpc' = "payload"
  /\ UNCHANGED <<clientVars, req, callerVars, readerVars, netVars, appVars,
                 histVars, subVars, workload, connVars, sidret, out, streamVars, fheader,
                 fgot>>

\* recv_frame: recv_all of payload_len = length - 2 bytes
RecvPayload ==
  /\ fpc = "payload"
  /\ \/ /\ fgot' = flength - 2
        /\ ferr' = SQRL_OK
     \/ /\ flength > 2
        /\ fgot' \in {0, flength - 3}
        /\ ferr' = SQRL_ERR_RECV
  /\ fpc' = "done"
  /\ UNCHANGED <<clientVars, req, callerVars, readerVars, netVars, appVars,
                 histVars, subVars, workload, connVars, sidret, out, streamVars, fheader,
                 flength>>

RecvFrameStep ==
  \/ RecvHeader
  \/ RecvCheckLength
  \/ RecvPayload

(* --------------------------- specifications ---------------------------- *)
\* a connection the application does not tear down
NextOpen ==
  \/ \E c \in Callers : CallerStep(c)
  \/ \E c \in Callers : \E o \in OpsOf(c) : CallInvalid(c, o)
  \/ ReaderStep
  \/ ServerStep

\* the same with the application calling sqrl_disconnect at any time
Next ==
  \/ NextOpen
  \/ AppStep
  \/ \E c \in Callers : UseAfterFree(c)

Spec == Init /\ [][Next]_vars

SpecOpen == Init /\ [][NextOpen]_vars

\* sqrl_connect from its call to its return, while the application's other
\* threads, which hold no client yet, may call operations with a NULL client
InitConnect ==
  /\ NoClient
  /\ InitRest
  /\ NoStream
  /\ workload = MixedWorkload
  /\ cpc = "start"
  /\ cargs \in [client_out : BOOLEAN, host : BOOLEAN, options : OptionArgs]
  /\ cclient = "none"
  /\ request_timeout_ms = 0
  /\ hpacket = <<>>
  /\ htimeout = -1
  /\ hresp = NoResp
  /\ herr = SQRL_OK
  /\ cerr = SQRL_OK
  /\ client_out = "unwritten"
  /\ session_id = <<>>
  /\ encoding = 0
  /\ cfail = "none"

NextConnect ==
  \/ ConnectStep
  \/ \E c \in Callers, o \in {"request", "subscribe"} : CallInvalid(c, o)

SpecConnect == InitConnect /\ [][NextConnect]_vars

\* auth tokens by length: strlen(token) is a size_t, the length field of
\* the packet has 16 bits
TokenLengths == {0, 1, 2, 255, 256, 65535, 65536, 65537}
Token(n) == [i \in 1..n |-> 116]

\* the options arguments of sqrl_connect with an auth token of each length
TokenOptions ==
  {[null |-> FALSE, auth_token |-> Str(Token(n)), use_msgpack |-> TRUE,
    connect_timeout_ms |-> 5000, request_timeout_ms |-> 30000] :
     n \in TokenLengths}

\* sqrl_connect called with an auth token of any of the lengths
InitToken ==
  /\ NoClient
  /\ InitRest
  /\ NoStream
  /\ workload = MixedWorkload
  /\ cpc = "start"
  /\ cargs \in [client_out : BOOLEAN, host : BOOLEAN, options : TokenOptions]
  /\ cclient = "none"
  /\ request_timeout_ms = 0
  /\ hpacket = <<>>
  /\ htimeout = -1
  /\ hresp = NoResp
  /\ herr = SQRL_OK
  /\ cerr = SQRL_OK
  /\ client_out = "unwritten"
  /\ session_id = <<>>
  /\ encoding = 0
  /\ cfail = "none"

SpecToken == InitToken /\ [][ConnectStep]_vars

(* -------------------- recv_frame on a stream of frames ----------------- *)
\* write_u32_be: four bytes, most significant first
write_u32_be(v) ==
  <<(v \div 16777216) % 256, (v \div 65536) % 256, (v \div 256) % 256, v % 256>>

\* send_frame: the frame it builds: length, type, encoding tag, payload
FrameBytes(json) ==
  write_u32_be(Len(json) + 2) \o <<MSG_TYPE_REQUEST, SQRL_ENCODING_JSON>>
    \o json

\* `uint32_t payload_len = length - 2;` but counting the two sub-header
\* bytes as payload
PayloadLenWhole(length) == length

\* `uint32_t payload_len = length - 2;`
PayloadLen(length) == length - 2

\* the bytes that are in the socket: the frames of the payloads, back to
\* back, each as send_frame builds it
RECURSIVE StreamOf(_)
StreamOf(payloads) ==
  IF payloads = <<>> THEN <<>>
  ELSE FrameBytes(Head(payloads)) \o StreamOf(Tail(payloads))

\* recv_all(fd, buf, len, 0): the next len bytes of the stream, or -1 when
\* the stream ends before len bytes came
RecvAllFails(len) == spos + len > Len(StreamOf(encoded))
RecvAll(len) == SubSeq(StreamOf(encoded), spos + 1, spos + len)

\* recv_frame: recv_all of the 6 header bytes
StreamRecvHeader ==
  /\ fpc = "header"
  /\ IF RecvAllFails(6)
       THEN /\ ferr' = SQRL_ERR_RECV
            /\ fpc' = "done"
            /\ UNCHANGED <<fheader, spos>>
       ELSE /\ fheader' = SubSeq(RecvAll(6), 1, 4)
            /\ spos' = spos + 6
            /\ fpc' = "check"
            /\ ferr' = ferr
  /\ UNCHANGED <<clientVars, req, callerVars, readerVars, netVars, appVars,
                 histVars, subVars, workload, connVars, sidret, out, flength,
                 fgot, encoded, decoded>>

\* recv_frame: recv_all of the payload_len bytes, returned as *json_out
StreamRecvPayload ==
  /\ fpc = "payload"
  /\ IF RecvAllFails(PayloadLen(flength))
       THEN /\ ferr' = SQRL_ERR_RECV
            /\ UNCHANGED <<fgot, spos, decoded>>
       ELSE /\ decoded' = Append(decoded, RecvAll(PayloadLen(flength)))
            /\ spos' = spos + PayloadLen(flength)
            /\ fgot' = PayloadLen(flength)
            /\ ferr' = SQRL_OK
  /\ fpc' = "done"
  /\ UNCHANGED <<clientVars, req, callerVars, readerVars, netVars, appVars,
                 histVars, subVars, workload, connVars, sidret, out, fheader,
                 flength, encoded>>

\* reader_thread_func: recv_frame returned SQRL_OK; after the dispatch the
\* loop calls recv_frame again
StreamRecvAgain ==
  /\ fpc = "done"
  /\ ferr = SQRL_OK
  /\ fpc' = "header"
  /\ UNCHANGED <<clientVars, req, callerVars, readerVars, netVars, appVars,
                 histVars, subVars, workload, connVars, sidret, out, fheader,
                 flength, fgot, ferr, streamVars>>

NextStream ==
  \/ StreamRecvHeader
  \/ RecvCheckLength
  \/ StreamRecvPayload
  \/ StreamRecvAgain

\* the JSON texts the peer sends: empty, an object, one that reads like a
\* frame header, and a line feed
Payloads == {<<>>, <<123, 125>>, <<1, 1, 1, 4, 1, 2>>, <<10>>}
MaxStream == 3

\* a connected client whose socket holds one to MaxStream frames
InitStream ==
  /\ ClientReturned
  /\ InitRest
  /\ ConnectReturned([status |-> HANDSHAKE_SUCCESS, flags |-> 1,
                      sid |-> [i \in 1..16 |-> 0]])
  /\ workload = MixedWorkload
  /\ \E n \in 1..MaxStream : encoded \in [1..n -> Payloads]
  /\ spos = 0
  /\ decoded = <<>>

SpecStream == InitStream /\ [][NextStream]_vars

(* ------------------------- send_frame, byte by byte -------------------- *)
\* the JSON text a caller passes to send_frame, shortened to two bytes:
\* one letter for the type and the id's digit
RequestJson(f) ==
  <<IF f.type = "request" THEN 113
    ELSE IF f.type = "subscribe" THEN 115 ELSE 117,
    48 + f.id>>

\* send_all: the number of bytes of caller c's frame the socket has taken
Sent(c) == Cardinality({i \in DOMAIN out : out[i].by = CallOf(c)})

\* send_all: one send() that takes the next n bytes of the frame
SendBytes(c) ==
  /\ pc[c] \in {"sf_send", "un_send"}
  /\ ~Dangling(c)
  /\ SendCanSucceed
  /\ LET frame == FrameBytes(RequestJson(RequestFrame(c)))
     IN /\ Sent(c) < Len(frame)
        /\ \E n \in 1..(Len(frame) - Sent(c)) :
             out' = out \o [k \in 1..n |->
                              [by |-> CallOf(c), off |-> Sent(c) + k,
                               byte |-> frame[Sent(c) + k]]]
  /\ UNCHANGED <<clientVars, req, callerVars, readerVars, netVars, appVars,
                 histVars, subVars, workload, connVars, frameVars, sidret,
                 streamVars>>

\* send_all returns 0 only when every byte of the frame was taken
AllSent(c) == Sent(c) = Len(FrameBytes(RequestJson(RequestFrame(c))))

\* the calls of a thread with send_all writing the frame in pieces
CallerStepWire(c) ==
  \/ \E o \in OpsOf(c) : Call(c, o)
  \/ NextIdLoad(c)
  \/ NextIdStore(c)
  \/ PendingAdd(c)
  \/ SendFrameLock(c)
  \/ SendBytes(c)
  \/ SendFrame(c) /\ (pc'[c] = "wait_lock" => AllSent(c))
  \/ PendingRemove(c)
  \/ WaitLock(c)
  \/ WaitCheck(c)
  \/ WakeRelock(c)
  \/ ReadResponse(c)
  \/ ClearResponse(c)
  \/ FreeAndReturn(c)
  \/ SubscribeAdd(c)
  \/ CallUnsubscribe(c)
  \/ UnsubscribeRemove(c)
  \/ UnsubscribeCheck(c)
  \/ UnsubscribeSend(c) /\ (wire' # wire => AllSent(c))

\* a connection that stays up, with a server that only answers
NextWire ==
  \/ \E c \in Callers : CallerStepWire(c)
  \/ ReaderRecv
  \/ DispatchResponseFind
  \/ DispatchResponseSet
  \/ ServerRespond

InitWire == InitClient /\ workload = WireWorkload

SpecWire == InitWire /\ [][NextWire]_vars

\* one call of recv_frame by the reader of a connected client
SpecFrame == Init /\ [][RecvFrameStep]_vars

\* two subscribing threads on a connection the application does not tear
\* down, with a server that sends well-formed frames and stays connected,
\* and a request timeout that no call reaches
NextSubscribers ==
  \/ \E c \in Callers :
       \/ \E o \in OpsOf(c) : Call(c, o)
       \/ NextIdLoad(c)
       \/ NextIdStore(c)
       \/ PendingAdd(c)
       \/ SendFrameLock(c)
       \/ SendFrame(c)
       \/ PendingRemove(c)
       \/ WaitLock(c)
       \/ WaitCheck(c)
       \/ WakeRelock(c)
       \/ ReadResponse(c)
       \/ ClearResponse(c)
       \/ FreeAndReturn(c)
       \/ SubscribeAdd(c)
       \/ CallUnsubscribe(c)
       \/ UnsubscribeRemove(c)
       \/ UnsubscribeCheck(c)
       \/ UnsubscribeSend(c)
  \/ ReaderStep
  \/ ServerRespond
  \/ ServerNotify

SpecSubscribers == InitSubscribers /\ [][NextSubscribers]_vars

\* the statements of a caller thread whose timed wait does not expire
CallerStepUntimed(c) ==
  \/ \E o \in OpsOf(c) : Call(c, o)
  \/ NextIdLoad(c)
  \/ NextIdStore(c)
  \/ PendingAdd(c)
  \/ SendFrameLock(c)
  \/ SendFrame(c)
  \/ PendingRemove(c)
  \/ WaitLock(c)
  \/ WaitCheck(c)
  \/ WakeRelock(c)
  \/ ReadResponse(c)
  \/ ClearResponse(c)
  \/ FreeAndReturn(c)
  \/ SubscribeAdd(c)
  \/ CallUnsubscribe(c)
  \/ UnsubscribeRemove(c)
  \/ UnsubscribeCheck(c)
  \/ UnsubscribeSend(c)

\* a connection that stays up, with a peer that also sends frames whose id
\* is not the id of an acknowledged subscription or of any request
NextStray ==
  \/ \E c \in Callers : CallerStepUntimed(c)
  \/ ReaderStep
  \/ ServerRespond
  \/ ServerNotify
  \/ ServerEarlyChange
  \/ ServerUnknownId

SpecStray == Init /\ [][NextStray]_vars

\* a client the application only asks about, while the peer may send a
\* frame with a bad length or close the connection
InitSession ==
  /\ ClientReturned
  /\ InitRest
  /\ NoStream
  /\ \E r \in Responses : r.status = HANDSHAKE_SUCCESS /\ ConnectReturned(r)
  /\ workload = MixedWorkload

NextSession ==
  \/ \E isNull \in BOOLEAN : SessionIdCall(isNull)
  \/ ReaderRecv
  \/ ServerBadFrame
  \/ ServerClose

SpecSession == InitSession /\ [][NextSession]_vars

\* one subscribing thread and a server that pushes changes of every kind
InitChanges == InitClient /\ workload = ChangesWorkload

SpecChanges == InitChanges /\ [][NextSubscribers]_vars

(* ------------- a callback that calls sqrl_unsubscribe itself ----------- *)
\* the subscription whose callback the reader is in
CallbackSub == delivered[Len(delivered)].id

\* the callback, on the reader thread and inside dispatch_change, calls
\* sqrl_unsubscribe with the handle sqrl_subscribe returned to thread c
CallbackUnsubscribe(c) ==
  /\ rpc = "in_callback"
  /\ pc[c] = "idle"
  /\ handle[c] # 0
  /\ handle[c] = CallbackSub
  /\ unsubbed' = unsubbed \cup {handle[c]}
  /\ rpc' = "cb_un_remove"
  /\ UNCHANGED <<subVars, outerVars, clientVars, req, callerVars, msg, rmatch,
                 netVars, appVars, issued, orphan, delivered, lost, ub>>

\* sqrl_unsubscribe on the reader thread: pthread_mutex_lock(&subs_mutex)
\* while dispatch_change, on the same thread, holds it.  The mutex has the
\* default type (pthread_mutex_init with NULL attributes), so locking it
\* again is undefined: the thread blocks for ever, or the lock call
\* returns, the entry is removed and the unlock releases the mutex.
CallbackUnsubscribeLock(c) ==
  /\ rpc = "cb_un_remove"
  /\ handle[c] # 0
  /\ handle[c] = CallbackSub
  /\ subs_mutex = Reader
  /\ \/ /\ rpc' = "cb_deadlock"
        /\ UNCHANGED <<subs_mutex, subscriptions>>
     \/ /\ subscriptions' = RemoveSub(subscriptions, handle[c])
        /\ subs_mutex' = Free
        /\ rpc' = "cb_un_send"
  /\ UNCHANGED <<subVars, outerVars, connected, reader_running, request_id, fd,
                 write_mutex, pending_mutex, pending_requests, clientFreed,
                 req, callerVars, msg, rmatch, netVars, appVars, histVars>>

\* sqrl_unsubscribe on the reader thread: send_frame if connected, free the
\* handle, return SQRL_OK to the callback
CallbackUnsubscribeSend(c) ==
  /\ rpc = "cb_un_send"
  /\ handle[c] # 0
  /\ handle[c] = CallbackSub
  /\ connected => write_mutex = Free
  /\ wire' = IF connected /\ SendCanSucceed /\ ~peerClosed
               THEN wire \cup {[id |-> handle[c], type |-> "unsubscribe",
                                from |-> CallOf(c)]}
               ELSE wire
  /\ handle' = [handle EXCEPT ![c] = 0]
  /\ gone' = gone \cup {[c |-> c, n |-> subcall[c]]}
  /\ rpc' = "in_callback"
  /\ UNCHANGED <<subcall, outerVars, clientVars, req, pc, op, calls, tmp, rid,
                 err, response_out, msg, rmatch, inbox, emitted, peerClosed,
                 acked, nseq, appVars, histVars>>

\* threads that subscribe, a server that answers and pushes changes, and
\* callbacks that return or unsubscribe
NextReentrant ==
  \/ \E c \in Callers :
       \/ \E o \in OpsOf(c) : Call(c, o)
       \/ NextIdLoad(c)
       \/ NextIdStore(c)
       \/ PendingAdd(c)
       \/ SendFrameLock(c)
       \/ SendFrame(c)
       \/ PendingRemove(c)
       \/ WaitLock(c)
       \/ WaitCheck(c)
       \/ WakeRelock(c)
       \/ ReadResponse(c)
       \/ ClearResponse(c)
       \/ FreeAndReturn(c)
       \/ SubscribeAdd(c)
       \/ CallbackUnsubscribe(c)
       \/ CallbackUnsubscribeLock(c)
       \/ CallbackUnsubscribeSend(c)
  \/ ReaderStep
  \/ ServerRespond
  \/ ServerNotify

SpecReentrant == InitChanges /\ [][NextReentrant]_vars

\* the reader's own code (a callback is user code and need not return)
ReaderCode ==
  \/ ReaderRecv
  \/ DispatchResponseFind
  \/ DispatchResponseSet
  \/ DispatchChange

\* Every thread that can take a step of the library's code eventually takes
\* one; a timed wait ends when its deadline passes.
FairOpen ==
  /\ Init
  /\ [][NextOpen]_vars
  /\ \A c \in Callers : WF_vars(CallerStep(c))
  /\ WF_vars(ReaderCode)

(* ------------------------------- claims -------------------------------- *)
InList(c) == \E i \in 1..Len(pending_requests) : pending_requests[i] = c

\* positions inside send_request (entry registered or being registered)
InSendRequest == {"sr_add", "sf_lock", "sf_send", "sr_fail_remove",
                  "wait_lock", "wait_check", "waiting", "wake_relock",
                  "to_relock", "read_resp", "clear_resp", "cleanup",
                  "sr_free"}

\* positions at which send_request has not yet fixed what it returns
Undecided == {"nid_load", "nid_store", "sr_add", "sf_lock", "sf_send",
              "wait_lock", "wait_check", "waiting", "wake_relock",
              "to_relock", "read_resp"}

\* the call `o` ([c, n]: the n-th call of caller c) has its outcome fixed
Decided(o) ==
  /\ o.c \in Callers
  /\ \/ calls[o.c] > o.n
     \/ calls[o.c] = o.n /\ pc[o.c] \notin Undecided

\* C1: every correlation id issued by next_request_id is distinct from every
\* id issued earlier on the connection, under any interleaving of callers.
C1_IdsDistinct ==
  \A a, b \in issued : a # b => a[3] # b[3]

\* C2: when send_request is about to return SQRL_OK, the payload it hands
\* out is a frame whose extracted id is the id this call registered, and a
\* pending entry never holds a response with another id.
C2_ResponseHasOwnId ==
  \A c \in Callers :
    /\ (pc[c] = "sr_free" /\ err[c] = SQRL_OK) =>
         (response_out[c] # NoFrame /\ response_out[c].id = rid[c])
    /\ (req[c].live /\ req[c].response # NoFrame) =>
         (req[c].response.id = req[c].id /\ req[c].id = rid[c])

\* C2 witness: a call returns SQRL_OK with its own response while another
\* request with a different id is still pending.
C2_Witness ==
  \E c, d \in Callers :
    /\ c # d
    /\ pc[c] = "sr_free" /\ err[c] = SQRL_OK
    /\ response_out[c].id = rid[c]
    /\ InList(d) /\ req[d].id # rid[c]

\* C3: once a call's outcome is fixed it does not change, and a response the
\* server produced for a call whose outcome is already fixed is never stored
\* into the pending entry of another call.
C3_OneOutcome ==
  [][\A c \in Callers :
       /\ (pc[c] \in {"cleanup", "sr_free"} /\ pc'[c] \in {"cleanup", "sr_free"})
            => (err'[c] = err[c] /\ response_out'[c] = response_out[c])
       /\ (req'[c].response # NoFrame /\ req'[c].response # req[c].response)
            => (Decided(req'[c].response.origin)
                  => req'[c].response.origin = CallOf(c))]_vars

\* C4: after send_request returned SQRL_ERR_TIMEOUT the pending list holds no
\* entry for that id, and the reader dropping a later response with that id
\* changes no pending entry, nor the liveness flag, and the loop goes on.
C4_TimeoutLaw ==
  /\ [](\A c \in Callers :
          (pc[c] = "idle" /\ err[c] = SQRL_ERR_TIMEOUT) =>
             FindPending(pending_requests, rid[c]) = "none")
  /\ [][\A c \in Callers :
          (/\ pc[c] = "idle" /\ err[c] = SQRL_ERR_TIMEOUT
           /\ rpc = "disp_resp" /\ msg.id = rid[c] /\ rpc' # "disp_resp")
            => (req' = req /\ connected' = connected /\ rpc' = "recv")]_vars

\* C5: a pending request that was outstanding when the reader loop ended on
\* a decode failure or socket closure ends its wait with ClosedConnection or
\* ReceiveFailed, not Timeout.
C5_ReaderFailureFailsPending ==
  \A c \in orphan :
    pc[c] = "cleanup" => err[c] \in {SQRL_ERR_CLOSED, SQRL_ERR_RECV}

\* C6: a send_request / sqrl_subscribe call in flight while sqrl_disconnect
\* runs never touches a pending entry, mutex, condition variable or client
\* struct that sqrl_disconnect has destroyed or freed.
C6_NoUseAfterDisconnect ==
  \A c \in Callers, what \in {"freed_request", "freed_client"} :
    <<c, what>> \notin ub

\* C7: sqrl_disconnect on a client that has already been disconnected does
\* not access freed state.
C7_SecondDisconnectHarmless ==
  <<"app", "freed_client">> \notin ub

\* C8: an operation issued while connected = false returns SQRL_ERR_CLOSED at
\* once: no request id is consumed, no pending entry registered, no frame
\* written, no lock taken, no wait.
C8_FailFastWhenDead ==
  [][\A c \in Callers :
       (/\ ~connected
        /\ pc[c] = "idle"
        /\ calls'[c] = calls[c] + 1
        /\ op'[c] \in {"request", "subscribe"})
         => /\ pc'[c] = "idle"
            /\ err'[c] = SQRL_ERR_CLOSED
            /\ request_id' = request_id
            /\ issued' = issued
            /\ pending_requests' = pending_requests
            /\ wire' = wire
            /\ write_mutex' = write_mutex /\ pending_mutex' = pending_mutex]_vars

\* C8 witness: the reader has marked the connection dead and an operation
\* issued afterwards has returned SQRL_ERR_CLOSED.
C8_Witness ==
  \E c \in Callers :
    /\ ~connected /\ rpc = "exited"
    /\ pc[c] = "idle" /\ calls[c] > 0 /\ err[c] = SQRL_ERR_CLOSED

\* C9: on a connection that is not being disconnected every send_request
\* call eventually returns.
C9_SubmitReturns ==
  \A c \in Callers : (pc[c] \in InSendRequest) ~> (pc[c] \notin InSendRequest)

\* C9 witness: with the reader gone, so that no completion can arrive, a
\* waiting call has left its wait by timeout and is about to return.
C9_Witness ==
  \E c \in Callers :
    /\ rpc = "exited"
    /\ pc[c] = "sr_free" /\ err[c] = SQRL_ERR_TIMEOUT

\* C10: the notifications of an acknowledged subscription that is not
\* unsubscribed reach the callback in wire order, none dropped, none twice.
C10_NotificationsInOrder ==
  /\ \A n \in lost : n.id \in unsubbed
  /\ \A i, j \in 1..Len(delivered) :
       (i < j /\ delivered[i].id = delivered[j].id)
         => delivered[i].seq < delivered[j].seq

\* C11: a callback is never invoked for a subscription whose sqrl_unsubscribe
\* has already returned, and while a callback runs its registry entry is
\* still in the list (it is not removed or freed under the callback).
C11_NoCallbackAfterUnsubscribe ==
  /\ \A i \in 1..Len(delivered) : ~delivered[i].late
  /\ rpc = "in_callback" =>
       \E k \in 1..Len(subscriptions) :
          subscriptions[k].cb = delivered[Len(delivered)].cb

\* C12: when the reader dispatches a notification for a subscription id
\* (the server sends notifications only after the acknowledgment) and no
\* sqrl_unsubscribe was called for that id, the registry holds an entry with
\* that id.
C12_RegistryBeforeNotification ==
  [][(rpc = "disp_change" /\ rpc' # "disp_change" /\ msg.id \notin unsubbed)
       => FindSub(subscriptions, msg.id)]_vars

\* C13: a sqrl_subscribe whose send_request failed (send failure, timeout,
\* no payload) or was answered with an error-typed response returns that
\* error (SQRL_ERR_SERVER for the error response), leaves the registry as it
\* is and hands out no handle; the registry grows only in a sqrl_subscribe
\* that got a non-error acknowledgment.
C13_SubscribeErrorPaths ==
  [][/\ \A c \in Callers :
          (op[c] = "subscribe" /\ pc[c] = "sr_free" /\ pc'[c] # "sr_free")
            => IF err[c] # SQRL_OK \/ response_out[c].type = "error"
                 THEN /\ pc'[c] = "idle"
                      /\ err'[c] = (IF err[c] # SQRL_OK THEN err[c]
                                    ELSE SQRL_ERR_SERVER)
                      /\ subscriptions' = subscriptions
                      /\ handle' = handle
                 ELSE pc'[c] = "sub_add" /\ subscriptions' = subscriptions
     /\ Len(subscriptions') > Len(subscriptions)
          => \E c \in Callers :
                /\ pc[c] = "sub_add" /\ err[c] = SQRL_OK
                /\ handle[c] = 0 /\ handle'[c] = rid[c]]_vars

\* a sqrl_subscribe answered with an error response has returned
\* SQRL_ERR_SERVER: no entry, no handle
C13_Witness ==
  \E c \in Callers :
    /\ op[c] = "subscribe" /\ pc[c] = "idle" /\ err[c] = SQRL_ERR_SERVER
    /\ subscriptions = <<>> /\ handle[c] = 0

\* C14: the status byte of a received handshake response decides the
\* handshake's outcome, for every value 0..255: 0 is success (session id
\* and negotiated encoding stored), 1 is VersionMismatch, 2 is AuthFailed,
\* anything else is HandshakeFailed.
C14_HandshakeStatusMap ==
  hresp # NoResp =>
    /\ herr = (CASE hresp.status = 0 -> SQRL_OK
                 [] hresp.status = 1 -> SQRL_ERR_VERSION_MISMATCH
                 [] hresp.status = 2 -> SQRL_ERR_AUTH_FAILED
                 [] OTHER -> SQRL_ERR_HANDSHAKE)
    /\ (hresp.status = 0 /\ (cpc = "thread" \/ cerr = SQRL_OK))
         => /\ Len(session_id) = 36
            /\ encoding = (IF hresp.flags \in {1, 3}
                             THEN SQRL_ENCODING_MSGPACK
                             ELSE SQRL_ENCODING_JSON)

\* a response with an unknown status was received and refused
C14_Witness ==
  /\ cpc = "done" /\ hresp # NoResp /\ hresp.status = 255
  /\ herr = SQRL_ERR_HANDSHAKE /\ cerr = SQRL_ERR_HANDSHAKE

\* C15: a write error or a read error during the handshake (the peer
\* closing before 19 bytes arrived included) makes sqrl_connect return
\* HandshakeFailed, and a read timeout makes it return Timeout.
C15_HandshakeIoErrors ==
  /\ cfail \in {"write", "read", "eof"} => cerr = SQRL_ERR_HANDSHAKE
  /\ cfail = "timeout" => cerr = SQRL_ERR_TIMEOUT

\* C16: when sqrl_connect has returned an error, a socket that was opened
\* is closed, no reader thread runs, the client is freed (or was never
\* allocated) and *client_out is not written.
C16_ConnectFailureReleases ==
  (cpc = "done" /\ cerr # SQRL_OK) =>
    /\ fd \in {"none", "closed"}
    /\ rpc = "none"
    /\ cclient \in {"none", "freed"}
    /\ client_out = "unwritten"

\* the handshake was refused with status 1 and the socket is closed
C16_Witness ==
  /\ cpc = "done" /\ cfail = "status" /\ hresp.status = 1
  /\ cerr = SQRL_ERR_VERSION_MISMATCH
  /\ fd = "closed" /\ cclient = "freed"

\* C17: a failure of address resolution, of socket creation or of the TCP
\* connect makes sqrl_connect return SQRL_ERR_CONNECT.
C17_ConnectLevelFailure ==
  cfail \in {"resolve", "socket", "tcp"} => cerr = SQRL_ERR_CONNECT

\* the TCP connect was refused
C17_Witness ==
  cpc = "done" /\ cfail = "tcp" /\ cerr = SQRL_ERR_CONNECT /\ fd = "closed"

\* C18: sqrl_connect with a NULL client_out or host, and an operation
\* called with a NULL client or other required pointer, return
\* SQRL_ERR_INVALID_ARG before anything else happens: no allocation, no
\* socket, no request id, no pending entry, no frame.
C18_InvalidArgFirst ==
  [][/\ (cpc = "start" /\ cpc' # "start" /\ ~(cargs.client_out /\ cargs.host))
          => /\ cpc' = "done" /\ cerr' = SQRL_ERR_INVALID_ARG
             /\ fd' = fd /\ cclient' = cclient /\ client_out' = client_out
     /\ \A c \in Callers :
          (calls'[c] = calls[c] + 1
             /\ op'[c] \in {"request(NULL)", "subscribe(NULL)"})
            => /\ pc'[c] = "idle" /\ err'[c] = SQRL_ERR_INVALID_ARG
               /\ request_id' = request_id /\ issued' = issued
               /\ pending_requests' = pending_requests
               /\ wire' = wire /\ fd' = fd]_vars

\* both have happened: a sqrl_connect and an operation refused for a NULL
\* argument
C18_Witness ==
  /\ cpc = "done" /\ cerr = SQRL_ERR_INVALID_ARG /\ fd = "none"
  /\ cclient = "none"
  /\ \E c \in Callers :
       /\ op[c] = "subscribe(NULL)" /\ pc[c] = "idle"
       /\ err[c] = SQRL_ERR_INVALID_ARG

\* the value of a lowercase hexadecimal digit, -1 for any other character
LowerHexValue(ch) ==
  CASE ch = "0" -> 0 [] ch = "1" -> 1 [] ch = "2" -> 2 [] ch = "3" -> 3
    [] ch = "4" -> 4 [] ch = "5" -> 5 [] ch = "6" -> 6 [] ch = "7" -> 7
    [] ch = "8" -> 8 [] ch = "9" -> 9 [] ch = "a" -> 10 [] ch = "b" -> 11
    [] ch = "c" -> 12 [] ch = "d" -> 13 [] ch = "e" -> 14 [] ch = "f" -> 15
    [] OTHER -> -1

\* where the first digit of byte k (1..16) stands in an 8-4-4-4-12 string
UuidDigitPos(k) ==
  2 * k - 1 + (IF k > 4 THEN 1 ELSE 0) + (IF k > 6 THEN 1 ELSE 0)
            + (IF k > 8 THEN 1 ELSE 0) + (IF k > 10 THEN 1 ELSE 0)

\* C19: after a successful sqrl_connect the session id is the 16 bytes at
\* offsets 3..18 of the response as 32 lowercase hexadecimal digits in byte
\* order, grouped 8-4-4-4-12 with hyphens.
C19_SessionIdFormat ==
  (cpc = "done" /\ cerr = SQRL_OK) =>
    /\ Len(session_id) = 36
    /\ \A i \in {9, 14, 19, 24} : session_id[i] = "-"
    /\ \A k \in 1..16 :
         /\ LowerHexValue(session_id[UuidDigitPos(k)]) >= 0
         /\ LowerHexValue(session_id[UuidDigitPos(k) + 1]) >= 0
         /\ 16 * LowerHexValue(session_id[UuidDigitPos(k)])
              + LowerHexValue(session_id[UuidDigitPos(k) + 1]) = hresp.sid[k]

\* a session id whose bytes need the letters a..f has been returned
C19_Witness ==
  /\ cpc = "done" /\ cerr = SQRL_OK /\ cfail = "none"
  /\ hresp.sid[1] = 171 /\ hresp.sid[2] = 188
  /\ session_id[1] = "a" /\ session_id[2] = "b" /\ session_id[3] = "b"

\* C20: recv_frame refuses a header with a decode failure exactly when the
\* declared length L has L < 2 or L - 2 > 16 MiB; any other L is accepted
\* and exactly L - 2 payload bytes are read.
C20_FrameLengthCheck ==
  (fheader # <<>> /\ fpc \in {"payload", "done"}) =>
    LET L == fheader[1] * 256 * 256 * 256 + fheader[2] * 256 * 256
               + fheader[3] * 256 + fheader[4]
    IN IF L < 2 \/ L - 2 > SQRL_MAX_MESSAGE_SIZE
         THEN fpc = "done" /\ ferr = SQRL_ERR_DECODE
         ELSE /\ ferr # SQRL_ERR_DECODE
              /\ (fpc = "done" /\ ferr = SQRL_OK) => fgot = L - 2

\* C21: recv_frame accepts a header only if its declared length L satisfies
\* 2 <= L <= 16 MiB, so a payload read has at most 16 MiB - 2 bytes; for any
\* other L it returns the decode failure before it reads a payload byte.
C21_AcceptedLengthInRange ==
  (fheader # <<>> /\ fpc \in {"payload", "done"}) =>
    LET L == ((fheader[1] * 256 + fheader[2]) * 256 + fheader[3]) * 256
               + fheader[4]
    IN /\ (fpc = "payload" \/ ferr \in {SQRL_OK, SQRL_ERR_RECV})
            => (2 <= L /\ L <= 16 * 1024 * 1024 /\ fgot <= 16 * 1024 * 1024 - 2)
       /\ ~(2 <= L /\ L <= 16 * 1024 * 1024)
            => (fpc = "done" /\ ferr = SQRL_ERR_DECODE /\ fgot = 0)

\* a header declaring 16 MiB + 1 was refused with no payload byte read
C21_Witness ==
  /\ fpc = "done" /\ flength = SQRL_MAX_MESSAGE_SIZE + 1
  /\ ferr = SQRL_ERR_DECODE /\ fgot = 0
  /\ fheader = <<1, 0, 0, 1>>

\* C22: the event a subscription callback receives has the variant named by
\* the notification's change type and carries its payloads: the document
\* for initial, the new document for insert and update, and the previous
\* value for update and delete when the notification contains one.
C22_EventCarriesPayloads ==
  \A i \in 1..Len(delivered) :
    LET n == delivered[i].change
        e == delivered[i].event
    IN /\ e.type = (CASE n.type = "initial" -> SQRL_CHANGE_INITIAL
                      [] n.type = "insert" -> SQRL_CHANGE_INSERT
                      [] n.type = "update" -> SQRL_CHANGE_UPDATE
                      [] n.type = "delete" -> SQRL_CHANGE_DELETE)
       /\ n.type = "initial" => e.document = n.document
       /\ n.type \in {"insert", "update"} => e.new_doc = n.new
       /\ (n.type \in {"update", "delete"} /\ n.old # "NULL")
            => e.old_data = n.old

\* C23: sqrl_session_id returns NULL whenever the client is not connected:
\* for a NULL client, and for a client for which sqrl_is_connected is false
\* because the reader loop has marked the connection dead.
C23_SessionIdNullWhenDead ==
  (sidret.called /\ ~sidret.is_connected) => sidret.session = <<>>

\* C24: sqrl_connect with options = NULL behaves as with
\* sqrl_options_default(): the handshake packet has an empty token and the
\* MessagePack and JSON capability flags, the handshake read timeout is
\* 5000 ms and the request timeout is 30000 ms.
C24_NullOptionsAreDefaults ==
  cargs.options \in {NullOptions, sqrl_options_default} =>
    /\ cclient # "none" => (request_timeout_ms = 30000 /\ request_timeout_ms > 0)
    /\ hpacket # <<>> => hpacket = <<83, 81, 82, 76, 1, 3, 0, 0>>
    /\ htimeout # -1 => (htimeout = 5000 /\ htimeout > 0)

\* a connect with options = NULL has sent its packet, read the response
\* and returned a client
C24_Witness ==
  /\ cpc = "done" /\ cerr = SQRL_OK /\ cargs.options = NullOptions
  /\ hresp # NoResp /\ hresp.flags = 3
  /\ Len(hpacket) = 8 /\ htimeout = 5000 /\ request_timeout_ms = 30000

\* the pending entries / registry entries that carry the id
PendingWithId(id) == {c \in Callers : InList(c) /\ req[c].id = id}
SubsWithId(id) == {k \in 1..Len(subscriptions) : subscriptions[k].id = id}

\* C25: a decoded message whose id is not the id of an active subscription
\* is routed to the pending list as the completion for that id; so a change
\* message whose id matches a pending request and no subscription completes
\* that request: the entry is completed and holds the message.
C25_UnrecognisedIdCompletes ==
  [][(/\ rpc = "disp_change" /\ rpc' # "disp_change"
      /\ SubsWithId(msg.id) = {}
      /\ PendingWithId(msg.id) # {})
       => \E m \in PendingWithId(msg.id) :
             req'[m].completed /\ req'[m].response = msg]_vars

\* C26: a decoded frame whose id matches neither a pending request nor an
\* active subscription is dropped: the pending list, its entries, the
\* registry and the liveness flag are unchanged, no callback runs, no caller
\* is woken, no mutex stays locked and the reader goes on to the next frame.
C26_UnknownIdDropped ==
  [][(/\ rpc \in {"disp_resp", "disp_change"} /\ rpc' # rpc
      /\ SubsWithId(msg.id) = {}
      /\ PendingWithId(msg.id) = {})
       => /\ pending_requests' = pending_requests
          /\ req' = req
          /\ subscriptions' = subscriptions
          /\ connected' = connected
          /\ delivered' = delivered
          /\ pc' = pc
          /\ pending_mutex' = Free /\ subs_mutex' = Free
          /\ rpc' = "recv"]_vars

\* the reader has dropped a change frame with an unknown id while a request
\* was waiting, and is reading the next frame
C26_Witness ==
  \E c \in Callers :
    /\ [id |-> UnknownId, seq |-> 0] \in lost
    /\ rpc = "recv" /\ connected /\ delivered = <<>>
    /\ pc[c] = "waiting" /\ InList(c) /\ ~req[c].completed

\* positions of send_request between linking its entry and unlinking it
Registered == {"sf_lock", "sf_send", "sr_fail_remove", "wait_lock",
               "wait_check", "waiting", "wake_relock", "to_relock",
               "read_resp", "clear_resp", "cleanup"}

\* C27: on every return path of send_request the call's own entry has been
\* removed from the pending list exactly once and no other entry has been
\* removed; when every call has returned the list is empty.
C27_OwnEntryRemovedOnce ==
  /\ [](\A c \in Callers :
          /\ Cardinality({i \in 1..Len(pending_requests) :
                            pending_requests[i] = c})
               = (IF pc[c] \in Registered THEN 1 ELSE 0)
          /\ pc[c] = "sr_free" => err[c] \in {SQRL_OK, SQRL_ERR_SEND,
                                              SQRL_ERR_TIMEOUT, SQRL_ERR_RECV})
  /\ [][\A c \in Callers :
          (InList(c) /\ ~(\E i \in 1..Len(pending_requests') :
                            pending_requests'[i] = c))
            => /\ pc[c] \in {"sr_fail_remove", "cleanup"}
               /\ pc'[c] = "sr_free"
               /\ \A d \in Callers \ {c} :
                     InList(d) => \E i \in 1..Len(pending_requests') :
                                     pending_requests'[i] = d]_vars
  /\ []((\A c \in Callers : pc[c] = "idle") => pending_requests = <<>>)

\* a call has unlinked its entry after a timeout while the entry of the
\* other thread's call is still in the list
C27_Witness ==
  \E c, d \in Callers :
    /\ c # d
    /\ pc[c] = "sr_free" /\ err[c] = SQRL_ERR_TIMEOUT /\ ~InList(c)
    /\ InList(d) /\ pending_requests = <<d>>

\* C28: a request's pending entry is in the pending list before any byte of
\* its frame is written, so the reader never holds a response to a call
\* whose entry is not yet registered.
C28_RegisteredBeforeSend ==
  /\ [][\A c \in Callers :
          (pc[c] = "sf_send" /\ wire' # wire)
            => \E i \in 1..Len(pending_requests) : pending_requests[i] = c]_vars
  /\ [](\A c \in Callers :
          (\/ msg.origin = CallOf(c)
           \/ \E i \in 1..Len(inbox) : inbox[i].origin = CallOf(c)
           \/ \E f \in wire : f.from = CallOf(c) /\ f.type # "unsubscribe")
            => pc[c] \notin {"nid_load", "nid_store", "sr_add", "sf_lock"})

\* the reader holds the response to a call that is registered and waiting
C28_Witness ==
  \E c \in Callers :
    /\ rpc = "disp_resp" /\ msg.origin = CallOf(c) /\ msg.id = rid[c]
    /\ InList(c) /\ pc[c] = "waiting"

\* positions at which a caller is between locking req->mutex for the wait
\* and leaving the wait loop
InWait == {"wait_lock", "wait_check", "waiting", "wake_relock", "to_relock"}

\* the order of sqrl_disconnect: the socket is closed only with the
\* liveness flags cleared, entries and tables are released only with the
\* socket closed and the reader joined, and from the join on no entry is
\* completed and no callback is invoked
DisconnectOrder ==
  /\ (dpc = "d_close" /\ dpc' = "d_join")
       => (~connected /\ ~reader_running /\ fd' = "closed")
  /\ (req' # req \/ pending_requests' # pending_requests
        \/ subscriptions' # subscriptions \/ clientFreed' # clientFreed)
       /\ dpc \in {"d_close", "d_join", "d_free_pending", "d_free_client"}
       /\ dpc' # dpc
       => (dpc \in {"d_free_pending", "d_free_client"}
             /\ fd = "closed" /\ rpc = "exited")
  /\ (dpc \in {"d_free_pending", "d_free_client"} \/ clientFreed)
       => /\ delivered' = delivered
          /\ rpc' = rpc
          /\ \A c \in Callers : req'[c].completed => req[c].completed

\* C29: sqrl_disconnect clears the liveness flags, closes the socket, joins
\* the reader and only then releases pending requests and subscriptions;
\* nothing is completed or called back after the join; and once it has
\* returned every pending request has been failed (no call is still in its
\* wait) and both tables are empty.
C29_DisconnectOrderAndRelease ==
  /\ [][DisconnectOrder]_vars
  /\ [](clientFreed =>
          /\ pending_requests = <<>> /\ subscriptions = <<>>
          /\ \A c \in Callers : pc[c] \notin InWait)

\* the registry holds the entry made by the sqrl_subscribe call that gave
\* caller c its handle
OwnEntryIn(list, c) ==
  \E k \in 1..Len(list) : list[k].cb = [c |-> c, n |-> subcall[c]]

\* C30: sqrl_unsubscribe has removed the subscription's registry entry
\* before it writes the unsubscribe frame, and returns SQRL_OK with the
\* entry removed whether the frame was written, the send failed, or the
\* connection was dead (and then it writes no frame).
C30_UnsubscribeRemovesFirst ==
  [][\A c \in Callers :
       /\ (pc[c] = "un_send" /\ pc'[c] # "un_send")
            => ~OwnEntryIn(subscriptions, c)
       /\ (op[c] = "unsubscribe" /\ pc[c] \in {"un_check", "un_send"}
             /\ pc'[c] = "idle")
            => /\ err'[c] = SQRL_OK
               /\ ~OwnEntryIn(subscriptions', c)
               /\ handle'[c] = 0
               /\ pc[c] = "un_check" => (~connected /\ wire' = wire)]_vars

\* C35: send_request returns SQRL_ERR_TIMEOUT only if no completion was
\* recorded in its pending entry: a call whose entry the reader has marked
\* completed before the call fixed its outcome gets the response.
C35_TimeoutOnlyIfNotCompleted ==
  [][\A c \in Callers :
       (pc[c] # "cleanup" /\ pc'[c] = "cleanup"
         /\ err'[c] = SQRL_ERR_TIMEOUT)
        => ~req[c].completed]_vars

\* C36: once a pending entry has been completed by a response, a further
\* response with the same id that arrives before the caller has removed the
\* entry does not change the stored payload: only the caller takes it out.
C36_FirstCompletionWins ==
  [][\A c \in Callers :
       (/\ req[c].live /\ req[c].completed /\ req[c].response # NoFrame
        /\ req'[c].response # req[c].response)
         => (pc[c] = "clear_resp" /\ pc'[c] = "cleanup"
               /\ req'[c].response = NoFrame)
            \/ ~req'[c].live]_vars

\* the mutex the next statement of caller c locks (Free: none)
WantsCaller(c) ==
  IF pc[c] \in {"sr_add", "sr_fail_remove", "cleanup"} THEN pending_mutex
  ELSE IF pc[c] \in {"sf_lock", "un_lock"} THEN write_mutex
  ELSE IF pc[c] \in {"wait_lock", "wake_relock", "to_relock"} THEN req[c].mutex
  ELSE IF pc[c] \in {"sub_add", "un_remove"} THEN subs_mutex
  ELSE Free

\* the mutex the next statement of the reader locks (Free: none)
WantsReader ==
  IF rpc = "disp_resp" THEN pending_mutex
  ELSE IF rpc = "disp_set" THEN req[rmatch].mutex
  ELSE IF rpc = "disp_change" THEN subs_mutex
  ELSE Free

\* the thread that thread t waits for: the owner of the mutex t is about to
\* lock, "none" when t is not blocked on a mutex
WaitsFor(t) ==
  LET w == IF t = Reader THEN WantsReader ELSE WantsCaller(t)
  IN IF w = Free THEN "none" ELSE w

\* C32: a caller waiting for its response holds no lock and so never delays
\* the reader: while calls are blocked in their timed wait the reader can
\* take its next step, and a response to a later request is delivered while
\* an earlier request is still unanswered.
C32_WaiterNeverDelaysReader ==
  /\ \A c \in Callers :
       pc[c] = "waiting" =>
         /\ write_mutex # c /\ pending_mutex # c /\ subs_mutex # c
         /\ \A d \in Callers : req[d].mutex # c
  /\ ((\A c \in Callers : pc[c] \in {"idle", "waiting"})
        /\ rpc \in {"disp_resp", "disp_set", "disp_change"})
       => WaitsFor(Reader) = "none"

\* the request with the later id has been completed with its response
\* while the request with the earlier id is still waiting, unanswered
C32_Witness ==
  \E a, b \in Callers :
    /\ a # b /\ rid[a] < rid[b]
    /\ pc[a] = "waiting" /\ ~req[a].completed /\ InList(a)
    /\ req[b].completed /\ req[b].response.id = rid[b]
    /\ pc[b] = "wake_relock"

C40_NoLockCycle ==
  /\ \A t \in Callers \cup {Reader} :
       /\ WaitsFor(t) # t
       /\ WaitsFor(t) # "none" =>
            /\ WaitsFor(WaitsFor(t)) # t
            /\ WaitsFor(WaitsFor(t)) # "none"
                 => WaitsFor(WaitsFor(WaitsFor(t))) # t
  /\ \E t \in Callers \cup {Reader} : WaitsFor(t) = "none"

\* a caller in its cleanup is blocked on pending_mutex, which the reader
\* holds while it is itself blocked on the mutex of another caller's entry
C40_Witness ==
  \E c, d \in Callers :
    /\ c # d
    /\ pc[c] = "cleanup" /\ WaitsFor(c) = Reader
    /\ rpc = "disp_set" /\ WaitsFor(Reader) = d
    /\ WaitsFor(d) = "none"

\* C39: in the handshake packet the 2-byte big-endian token length field
\* equals the number of token bytes that follow it, for every length of the
\* auth token: the packet is exactly 8 + declared-length bytes long.
C39_TokenLengthFieldMatches ==
  hpacket # <<>> => Len(hpacket) = 8 + hpacket[7] * 256 + hpacket[8]

\* callers that are inside send_all
Writing == {c \in Callers : pc[c] \in {"sf_send", "un_send"}}

\* C31: frames are written atomically: at most one thread at a time is
\* writing a frame to the socket, and the bytes of one frame are contiguous
\* and in order in the byte stream, never interleaved with another frame's.
C31_FramesNotInterleaved ==
  /\ Cardinality(Writing) <= 1
  /\ \A i \in 2..Len(out) :
       \/ out[i].by = out[i-1].by /\ out[i].off = out[i-1].off + 1
       \/ /\ out[i].off = 1
          /\ \A j \in 1..(i-1) : out[j].by # out[i].by

\* one thread is part-way through its frame while the other has its frame
\* built and waits for write_mutex
C31_Witness ==
  \E c, d \in Callers :
    /\ c # d
    /\ pc[c] \in {"sf_send", "un_send"} /\ Sent(c) > 0 /\ ~AllSent(c)
    /\ pc[d] \in {"sf_lock", "un_lock"}
    /\ "unsubscribe" \in {op[c], op[d]}

\* C38: every frame the client writes carries the encoding the handshake
\* negotiated: the encoding tag, the sixth byte of a frame, equals
\* client->encoding.
C38_TagIsNegotiatedEncoding ==
  \A i \in DOMAIN out : out[i].off = 6 => out[i].byte = encoding

\* the bytes of the first n encoded frames: 6 header bytes and the payload
RECURSIVE FramedLen(_)
FramedLen(n) == IF n = 0 THEN 0 ELSE FramedLen(n - 1) + 6 + Len(encoded[n])

\* C34: decoding consumes exactly 6 + (L - 2) bytes of the stream for an
\* accepted frame with declared length L, whatever the payload contains:
\* a stream of back-to-back valid frames is decoded into the sequence of
\* payloads that was encoded, every frame is accepted, and the stream ends
\* only after the last of them.
C34_StreamRoundTrip ==
  /\ Len(decoded) <= Len(encoded)
  /\ \A i \in 1..Len(decoded) : decoded[i] = encoded[i]
  /\ ferr # SQRL_ERR_DECODE
  /\ ferr = SQRL_ERR_RECV => decoded = encoded
  /\ fpc = "header" => spos = FramedLen(Len(decoded))
  /\ (fpc = "done" /\ ferr = SQRL_OK)
       => /\ spos = FramedLen(Len(decoded))
          /\ spos = FramedLen(Len(decoded) - 1) + 6 + (flength - 2)

\* three frames were decoded, among them an empty payload directly before
\* a payload that reads like a frame header
C34_Witness ==
  /\ Len(encoded) = MaxStream /\ decoded = encoded
  /\ fpc = "done" /\ ferr = SQRL_OK
  /\ encoded[2] = <<>> /\ encoded[3] = <<1, 1, 1, 4, 1, 2>>

\* C37: sqrl_unsubscribe called from inside a subscription callback, on
\* the reader thread while dispatch_change holds the registry lock,
\* returns: the reader is never blocked for ever on the registry lock it
\* holds itself, and goes on to read frames.
C37_CallbackMayCallLibrary == rpc # "cb_deadlock"

====
